---- MODULE Spec2Model ----
(***************************************************************************)
(* Model of the sofascore_scraper fetch pipeline:                          *)
(*   - the HTTP request layer  (src/src/utils.py)                          *)
(*   - the finished-match filter and the round batch fetcher               *)
(*     (src/src/match_fetcher.py)                                          *)
(*   - the match-detail batch fetcher (src/src/match_data_fetcher.py)      *)
(* Each component has its own specification; the variables of the other    *)
(* components stay at their idle values.                                   *)
(***************************************************************************)
EXTENDS Integers, Sequences, FiniteSets, TLC

\* ------------------------------------------------------------------------
\* Bounds of the model
\* ------------------------------------------------------------------------
\* largest max_retries handed to the request layer (0 = MAX_RETRIES=0 in .env)
MaxRetriesBound == 5

\* ------------------------------------------------------------------------
\* Small helpers
\* ------------------------------------------------------------------------
Min(a, b) == IF a <= b THEN a ELSE b

RECURSIVE Pow2(_)
Pow2(n) == IF n <= 0 THEN 1 ELSE 2 * Pow2(n - 1)

\* ========================================================================
\* HTTP request layer: make_api_request / make_api_request_async
\* ========================================================================
VARIABLES
    rq_variant,      \* "blocking" (make_api_request) or "async" (make_api_request_async)
    rq_max_retries,  \* the max_retries argument
    rq_attempt,      \* loop variable `attempt` of the next iteration
    rq_pc,           \* "idle" | "loop" | "done"
    rq_history,      \* what the server did on each attempt so far
    rq_sleeps,       \* the sleeps performed, in order: [kind, secs, after]
    rq_outcome,      \* "pending" | "json" | "None" | the class of the raised error
    rq_status_code   \* status_code carried by a raised APIError (0: none)

rq_vars == <<rq_variant, rq_max_retries, rq_attempt, rq_pc, rq_history,
             rq_sleeps, rq_outcome, rq_status_code>>

\* What one HTTP attempt can meet: a status with a JSON body, a status 200
\* whose body is not JSON, a connection/timeout failure, or any other exception.
Responses == {"ok200", "badjson200", "s429", "s404", "s500", "s503",
              "neterr", "unexpected"}

StatusOf(resp) ==
    CASE resp = "ok200"      -> 200
      [] resp = "badjson200" -> 200
      [] resp = "s429"       -> 429
      [] resp = "s404"       -> 404
      [] resp = "s500"       -> 500
      [] resp = "s503"       -> 503
      [] OTHER               -> 0

\* wait_time = min(60, 5 * (2 ** attempt))
RateLimitWaitNoCap(attempt) == 5 * Pow2(attempt)
RateLimitWait(attempt) == Min(60, 5 * Pow2(attempt))

\* wait_time = 3 * (2 ** attempt)
NetBackoffShifted(attempt) == 3 * Pow2(attempt + 1)
NetBackoff(attempt) == 3 * Pow2(attempt)

\* `attempt == max_retries - 1` / the negation of `attempt < max_retries - 1`
IsLastAttemptOffByOne(attempt, max_retries) == attempt = max_retries
IsLastAttempt(attempt, max_retries) == attempt = max_retries - 1

\* The exception one attempt raises inside the try block ("none": no exception,
\* "continue": the 429 branch that did not raise).
\* 429 is tested first; then status >= 400 raises APIError; then the body is
\* decoded.  The 429 branch raises RateLimitError only on the last attempt.
RaisedInTry(resp, attempt, max_retries) ==
    CASE resp = "neterr"               -> "ClientError"
      [] resp = "unexpected"           -> "Exception"
      [] StatusOf(resp) = 429          ->
            IF IsLastAttempt(attempt, max_retries) THEN "RateLimitError" ELSE "continue"
      [] StatusOf(resp) >= 400         -> "APIError"
      [] resp = "badjson200"           -> "DataParsingError"
      [] OTHER                         -> "none"

\* The except clause that catches an exception, in the order of the clauses:
\*   except (ConnectionError, Timeout) / (ClientError, TimeoutError)
\*   except (RateLimitError, APIError, DataParsingError): raise
\*   except Exception
ExceptClauseRetryingApiError(exc) ==
    CASE exc = "ClientError" -> "network"
      [] exc \in {"RateLimitError", "DataParsingError"} -> "reraise"
      [] OTHER -> "unexpected"
ExceptClause(exc) ==
    CASE exc = "ClientError" -> "network"
      [] exc \in {"RateLimitError", "APIError", "DataParsingError"} -> "reraise"
      [] OTHER -> "unexpected"

Sleep(kind, secs, after) == [kind |-> kind, secs |-> secs, after |-> after]

\* One iteration of `for attempt in range(max_retries)`.
make_api_request_attempt(resp) ==
    /\ rq_pc = "loop"
    /\ rq_attempt < rq_max_retries
    /\ rq_history' = Append(rq_history, resp)
    /\ LET exc    == RaisedInTry(resp, rq_attempt, rq_max_retries)
           clause == ExceptClause(exc)
           last   == IsLastAttempt(rq_attempt, rq_max_retries)
           \* the 429 branch sleeps before it tests for the last attempt
           s1     == IF StatusOf(resp) = 429
                     THEN Append(rq_sleeps, Sleep("rate", RateLimitWait(rq_attempt), rq_attempt))
                     ELSE rq_sleeps
       IN
       CASE exc = "none" ->
              \* success: short pacing sleep, return the body
              /\ rq_sleeps' = Append(rq_sleeps, Sleep("pace", 0, rq_attempt))
              /\ rq_outcome' = "json"
              /\ rq_pc' = "done"
              /\ UNCHANGED <<rq_attempt, rq_status_code>>
         [] exc = "continue" ->
              /\ rq_sleeps' = s1
              /\ rq_attempt' = rq_attempt + 1
              /\ UNCHANGED <<rq_outcome, rq_pc, rq_status_code>>
         [] exc \notin {"none", "continue"} /\ clause = "reraise" ->
              /\ rq_sleeps' = s1
              /\ rq_outcome' = exc
              /\ rq_status_code' = IF exc = "DataParsingError" THEN 0 ELSE StatusOf(resp)
              /\ rq_pc' = "done"
              /\ UNCHANGED rq_attempt
         [] exc \notin {"none", "continue"} /\ clause = "network" ->
              IF ~last
              THEN /\ rq_sleeps' = Append(s1, Sleep("net", NetBackoff(rq_attempt), rq_attempt))
                   /\ rq_attempt' = rq_attempt + 1
                   /\ UNCHANGED <<rq_outcome, rq_pc, rq_status_code>>
              ELSE /\ rq_sleeps' = s1
                   /\ rq_outcome' = "NetworkError"
                   /\ rq_pc' = "done"
                   /\ UNCHANGED <<rq_attempt, rq_status_code>>
         [] exc \notin {"none", "continue"} /\ clause = "unexpected" ->
              IF ~last
              THEN /\ rq_sleeps' = Append(s1, Sleep("unexpected", NetBackoff(rq_attempt), rq_attempt))
                   /\ rq_attempt' = rq_attempt + 1
                   /\ UNCHANGED <<rq_outcome, rq_pc, rq_status_code>>
              ELSE /\ rq_sleeps' = s1
                   /\ rq_outcome' = "SofaScoreScraperError"
                   /\ rq_status_code' = IF exc = "APIError" THEN StatusOf(resp) ELSE 0
                   /\ rq_pc' = "done"
                   /\ UNCHANGED rq_attempt
    /\ UNCHANGED <<rq_variant, rq_max_retries>>

\* The loop ran out without return or raise: the trailing `return None`.
make_api_request_fallthrough ==
    /\ rq_pc = "loop"
    /\ rq_attempt >= rq_max_retries
    /\ rq_outcome' = "None"
    /\ rq_pc' = "done"
    /\ UNCHANGED <<rq_variant, rq_max_retries, rq_attempt, rq_history,
                   rq_sleeps, rq_status_code>>

RqIdle ==
    /\ rq_variant = "blocking"
    /\ rq_max_retries = 0
    /\ rq_attempt = 0
    /\ rq_pc = "idle"
    /\ rq_history = <<>>
    /\ rq_sleeps = <<>>
    /\ rq_outcome = "pending"
    /\ rq_status_code = 0

RqInit ==
    /\ rq_variant \in {"blocking", "async"}
    /\ rq_max_retries \in 0..MaxRetriesBound
    /\ rq_attempt = 0
    /\ rq_pc = "loop"
    /\ rq_history = <<>>
    /\ rq_sleeps = <<>>
    /\ rq_outcome = "pending"
    /\ rq_status_code = 0

RqNext ==
    \/ \E resp \in Responses : make_api_request_attempt(resp)
    \/ make_api_request_fallthrough

\* ------------------------------------------------------------------------
\* Properties of the request layer (checked under SpecReq)
\* ------------------------------------------------------------------------
AllAre(h, resp) == \A i \in 1..Len(h) : h[i] = resp

SleepsOfKind(kind) == SelectSeq(rq_sleeps, LAMBDA s : s.kind = kind)

\* C4: with max_retries = n >= 1, if the endpoint answers 429 on the first
\* k < n attempts and 200 afterwards, the call goes on after each of the k
\* rate-limited attempts, ends with attempt k+1 and returns the JSON body; the
\* backoff slept after attempt i (from 0) is min(60, 5*2^i) seconds, so the
\* backoffs are non-decreasing and never above 60.
C4_RateLimitThenSuccess ==
    LET h     == rq_history
        rates == SleepsOfKind("rate")
    IN  (rq_max_retries >= 1 /\ Len(h) >= 1) =>
        /\ (AllAre(h, "s429") /\ Len(h) < rq_max_retries) =>
              /\ rq_pc = "loop"
              /\ rq_attempt = Len(h)
        /\ (AllAre(SubSeq(h, 1, Len(h) - 1), "s429") /\ h[Len(h)] = "ok200") =>
              /\ rq_pc = "done"
              /\ rq_outcome = "json"
              /\ Len(rates) = Len(h) - 1
        /\ (AllAre(SubSeq(h, 1, Len(h) - 1), "s429") /\ h[Len(h)] \in {"ok200", "s429"}) =>
              /\ \A i \in 1..Len(rates) :
                    /\ rates[i].after = i - 1
                    /\ rates[i].secs = (IF 5 * (2 ^ (i - 1)) > 60 THEN 60 ELSE 5 * (2 ^ (i - 1)))
                    /\ rates[i].secs <= 60
              /\ \A i \in 1..(Len(rates) - 1) : rates[i].secs <= rates[i + 1].secs

\* four rate-limited attempts, then success on the fifth: the cap of 60 is hit
C4_Witness ==
    /\ rq_pc = "done"
    /\ rq_outcome = "json"
    /\ Len(rq_history) = 5
    /\ AllAre(SubSeq(rq_history, 1, 4), "s429")
    /\ Len(SleepsOfKind("rate")) = 4

\* C5: for every sequence of responses and failures and every
\* max_retries = n >= 1, a call makes at most n HTTP attempts, is over once the
\* n-th attempt has been made, ends by returning the body or by raising, and
\* never reaches the trailing `return None`.
C5_BoundedAttempts ==
    rq_max_retries >= 1 =>
        /\ Len(rq_history) <= rq_max_retries
        /\ (Len(rq_history) = rq_max_retries => rq_pc = "done")
        /\ rq_outcome # "None"
        /\ (rq_pc = "done" =>
              rq_outcome \in {"json", "RateLimitError", "APIError", "DataParsingError",
                              "NetworkError", "SofaScoreScraperError"})

C5_Witness ==
    /\ rq_pc = "done"
    /\ rq_max_retries >= 3
    /\ Len(rq_history) = rq_max_retries
    /\ rq_history[Len(rq_history)] \in {"neterr", "unexpected"}

\* C7 (as claimed): a status >= 400 other than 429 and 404 is retried until
\* max_retries attempts have been used, and only then ends in an API error.
C7_Original ==
    LET h == rq_history
    IN  (rq_max_retries >= 1 /\ Len(h) >= 1
         /\ StatusOf(h[Len(h)]) >= 400 /\ StatusOf(h[Len(h)]) \notin {429, 404}) =>
        /\ (Len(h) < rq_max_retries => rq_pc = "loop")
        /\ (rq_pc = "done" => (Len(h) = rq_max_retries /\ rq_outcome = "APIError"))

\* C7 (amended): a status >= 400 other than 429 is never retried: the attempt
\* that receives it is the last of the call, which ends at once, without a
\* backoff sleep, in an APIError carrying that status code.
C7_ApiErrorNotRetried ==
    LET h == rq_history
    IN  (rq_max_retries >= 1 /\ Len(h) >= 1
         /\ StatusOf(h[Len(h)]) >= 400 /\ StatusOf(h[Len(h)]) # 429) =>
        /\ rq_pc = "done"
        /\ rq_outcome = "APIError"
        /\ rq_status_code = StatusOf(h[Len(h)])
        /\ \A i \in 1..Len(rq_sleeps) : rq_sleeps[i].after # Len(h) - 1

\* a 500 on the first attempt although retries remain
C7_Witness ==
    /\ rq_pc = "done"
    /\ rq_max_retries >= 2
    /\ rq_history = <<"s500">>
    /\ rq_outcome = "APIError"
    /\ rq_status_code = 500

\* C8 (as claimed): when all max_retries attempts fail with a connection or
\* timeout error the blocking request raises NetworkError and the async
\* request returns None without raising.
C8_Original ==
    (rq_max_retries >= 1 /\ rq_pc = "done"
     /\ Len(rq_history) = rq_max_retries /\ AllAre(rq_history, "neterr")) =>
        /\ (rq_variant = "blocking" => rq_outcome = "NetworkError")
        /\ (rq_variant = "async" => rq_outcome = "None")

\* C8 (amended): when all max_retries attempts fail with a connection or
\* timeout error, the blocking and the async request both raise NetworkError;
\* the wait between failed attempt i and attempt i+1 is 3*2^i seconds and no
\* wait follows the last attempt.
C8_NetworkErrorBothVariants ==
    LET h    == rq_history
        nets == SleepsOfKind("net")
    IN  (rq_max_retries >= 1 /\ Len(h) >= 1 /\ AllAre(h, "neterr")) =>
        /\ (Len(h) < rq_max_retries => (rq_pc = "loop" /\ Len(nets) = Len(h)))
        /\ (Len(h) = rq_max_retries =>
              /\ rq_pc = "done"
              /\ rq_outcome = "NetworkError"
              /\ Len(nets) = Len(h) - 1)
        /\ Len(rq_sleeps) = Len(nets)
        /\ \A i \in 1..Len(nets) :
              /\ nets[i].after = i - 1
              /\ nets[i].secs = 3 * (2 ^ (i - 1))

C8_Witness ==
    /\ rq_variant = "async"
    /\ rq_pc = "done"
    /\ rq_max_retries >= 3
    /\ Len(rq_history) = rq_max_retries
    /\ AllAre(rq_history, "neterr")
    /\ rq_outcome = "NetworkError"


\* ========================================================================
\* MatchFetcher._filter_finished_matches
\* ========================================================================
\* most events in one round response
MaxEvents == 3

VARIABLES
    f_given,   \* the response as it was handed to the filter
    f_heap,    \* the dict objects: 1 is `data`, 2 is the copy made by data.copy()
    f_result,  \* the returned tuple: the dict object, total_events, finished count
    f_pc       \* "idle" | "call" | "done"

f_vars == <<f_given, f_heap, f_result, f_pc>>

\* status.description / status.type pairs an event can carry; "None" stands
\* for a key that .get() does not find
Statuses == {
    [description |-> "Ended",       type |-> "finished"],
    [description |-> "Not started", type |-> "notstarted"],
    [description |-> "1st half",    type |-> "inprogress"],
    [description |-> "AET",         type |-> "finished"],
    [description |-> "Ended",       type |-> "None"],
    [description |-> "None",        type |-> "None"] }

\* the events lists: event i of a response has id i
EventLists ==
    UNION { { [i \in 1..n |-> [id |-> i, status |-> st[i]]] : st \in [1..n -> Statuses] }
            : n \in 0..MaxEvents }

\* a response: None, or a dict with or without "events" and with or without
\* roundInfo.round (round 0: not there)
RoundResponses ==
    {[isNone |-> TRUE, hasEvents |-> FALSE, events |-> <<>>, roundInfo |-> 0, round |-> 0]}
    \cup { [isNone |-> FALSE, hasEvents |-> FALSE, events |-> <<>>, roundInfo |-> ri, round |-> 0]
            : ri \in {0, 7} }
    \cup { [isNone |-> FALSE, hasEvents |-> TRUE, events |-> ev, roundInfo |-> ri, round |-> 0]
            : ev \in EventLists, ri \in {0, 7} }

NoObject == [isNone |-> TRUE, hasEvents |-> FALSE, events |-> <<>>, roundInfo |-> 0, round |-> 0]

\* event.get("status", {}).get("description") == "Ended" and
\* event.get("status", {}).get("type") == "finished"
IsFinishedEventEither(event) ==
    event.status.description = "Ended" \/ event.status.type = "finished"
IsFinishedEvent(event) ==
    event.status.description = "Ended" /\ event.status.type = "finished"

\* [event for event in data.get("events", []) if ...]: left to right, appending
RECURSIVE FinishedEventsFrom(_, _)
FinishedEventsFrom(events, i) ==
    IF i > Len(events) THEN <<>>
    ELSE IF IsFinishedEvent(events[i])
         THEN <<events[i]>> \o FinishedEventsFrom(events, i + 1)
         ELSE FinishedEventsFrom(events, i + 1)

\* `not data or "events" not in data`
FilterReturnsInput(data) == data.isNone \/ ~data.hasEvents

_filter_finished_matches ==
    /\ f_pc = "call"
    /\ LET data == f_heap[1]
       IN IF FilterReturnsInput(data)
          THEN /\ f_result' = [obj |-> 1, total_events |-> 0, finished_count |-> 0]
               /\ f_heap' = f_heap
          ELSE LET finished_events == FinishedEventsFrom(data.events, 1)
                   \* filtered_data = data.copy(); filtered_data["events"] = ...
                   copied == [data EXCEPT !.events = finished_events]
                   \* "roundInfo" in data and "round" in data["roundInfo"]
                   filtered_data == IF data.roundInfo # 0
                                    THEN [copied EXCEPT !.round = data.roundInfo]
                                    ELSE copied
               IN /\ f_heap' = [f_heap EXCEPT ![2] = filtered_data]
                  /\ f_result' = [obj |-> 2,
                                  total_events |-> Len(data.events),
                                  finished_count |-> Len(finished_events)]
    /\ f_pc' = "done"
    /\ UNCHANGED f_given

FIdle ==
    /\ f_given = NoObject
    /\ f_heap = [o \in 1..2 |-> NoObject]
    /\ f_result = [obj |-> 0, total_events |-> 0, finished_count |-> 0]
    /\ f_pc = "idle"

FInit ==
    /\ f_given \in RoundResponses
    /\ f_heap = [o \in 1..2 |-> IF o = 1 THEN f_given ELSE NoObject]
    /\ f_result = [obj |-> 0, total_events |-> 0, finished_count |-> 0]
    /\ f_pc = "call"

FNext == _filter_finished_matches

\* C10: for every round response the filter keeps exactly the events with
\* status.description = "Ended" and status.type = "finished", in their original
\* order; finished_count is the number of kept events, total_events the number
\* of events before filtering, and the input response is left as it was.
C10_FilterFinished ==
    f_pc = "done" =>
        LET orig == f_given.events
            kept == f_heap[f_result.obj].events
        IN  /\ f_heap[1] = f_given
            /\ f_result.total_events = Len(orig)
            /\ f_result.finished_count = Len(kept)
            /\ \A i \in 1..Len(kept) :
                  /\ kept[i].id \in 1..Len(orig)
                  /\ kept[i] = orig[kept[i].id]
                  /\ kept[i].status = [description |-> "Ended", type |-> "finished"]
            /\ \A i \in 1..(Len(kept) - 1) : kept[i].id < kept[i + 1].id
            /\ \A j \in 1..Len(orig) :
                  orig[j].status = [description |-> "Ended", type |-> "finished"]
                      => \E i \in 1..Len(kept) : kept[i] = orig[j]

\* a response of three events of which the first and the last are kept
C10_Witness ==
    /\ f_pc = "done"
    /\ Len(f_given.events) = 3
    /\ f_result.finished_count = 2
    /\ f_given.events[2].status.type = "finished"
    /\ f_given.events[2].status.description = "AET"


\* ========================================================================
\* Round batch: MatchFetcher.fetch_all_rounds_async / _fetch_and_save_round
\* ========================================================================
\* number of round tasks of one season batch (max_rounds, scaled down)
MaxRounds == 2
\* largest MAX_CONCURRENT read from the environment
MaxConcurrentBound == 1
\* MAX_RETRIES, the default max_retries of the request layer
MAX_RETRIES == 3

Rounds == 1..MaxRounds

VARIABLES
    rd_semaphore_limit,  \* semaphore_limit = MAX_CONCURRENT
    rd_only_finished,    \* FETCH_ONLY_FINISHED
    rd_save_empty,       \* SAVE_EMPTY_ROUNDS
    rd_batch,            \* "none" | "idle" | "running" | "returned" | "crashed"
    rd_file,             \* content of round_{n}.json in output_dir
    rd_pc,               \* position of round task n
    rd_attempt,          \* `attempt` of the request of round task n
    rd_pending,          \* exception a sleeping request raises on wake-up ("none": retry)
    rd_status,           \* HTTP status of the last response to round n (0: none)
    rd_ret,              \* what task n returned: "pending" | "data" | "None" | "raised"
    rd_branch,           \* the exit _fetch_and_save_round took
    rd_results,          \* `results`, in completion order
    rd_max_round,        \* the max_round argument of fetch_all_rounds_for_season
    rd_full,             \* content of round_{n}_full.json in the season directory
    rd_csv,              \* content of round_{n}_matches.csv in the season directory
    rd_round_number      \* round a pending fetch_matches_for_round call asks for (0: none)

\* the state only the season entry points and the single-round fetch touch
rd_season_vars == <<rd_max_round, rd_full, rd_csv, rd_round_number>>

rd_vars == <<rd_semaphore_limit, rd_only_finished, rd_save_empty, rd_batch, rd_file,
             rd_pc, rd_attempt, rd_pending, rd_status, rd_ret, rd_branch, rd_results,
             rd_season_vars>>

\* what round_{n}.json can hold: nothing, a round with finished events only,
\* with finished and other events, with unfinished events only, an empty round,
\* text that is not JSON, or a file that cannot be read
FileKinds == {"absent", "finished", "mixed", "unfinished", "empty", "corrupt", "unreadable"}

\* the JSON bodies of a 200 answer to a round request
RoundBodies == {"finished", "mixed", "unfinished", "empty", "null"}
RoundAnswers == RoundBodies \cup (Responses \ {"ok200", "s503"})
ResponseOf(answer) == IF answer \in RoundBodies THEN "ok200" ELSE answer

\* how a file write can end
WriteOutcomes == {"ok", "open_failed", "write_failed"}

\* _is_empty_round_data: falsy data, or no events and no hasNextPage
IsEmptyRoundData(kind) == kind \in {"empty", "null"}

\* the round tasks take no semaphore ("Semaphore kullanmadan doğrudan işlemi
\* gerçekleştir"): semaphore_limit is passed along and never used
RoundMayRequest(n) == TRUE

\* the except clause of _fetch_and_save_round that handles an exception
RoundExceptBranch(exc) ==
    IF exc = "ResourceNotFoundError" THEN "not_found" ELSE "generic"

\* `except Exception` around `await coro` in the as_completed loop
TaskErrorCaughtNever(exc) == FALSE
TaskErrorCaught(exc) == TRUE

RoundsInFlight == Cardinality({n \in Rounds : rd_pc[n] = "request"})

\* task n ends: as_completed hands its result to the collecting loop
RoundDone(n, ret, branch) ==
    /\ rd_pc' = [rd_pc EXCEPT ![n] = "done"]
    /\ rd_ret' = [rd_ret EXCEPT ![n] = ret]
    /\ rd_branch' = [rd_branch EXCEPT ![n] = branch]
    /\ rd_results' = IF ret = "data" THEN Append(rd_results, n) ELSE rd_results
    /\ rd_batch' = IF ret = "raised" /\ ~TaskErrorCaught("OSError") THEN "crashed" ELSE rd_batch

\* fetch_all_rounds_async up to the as_completed loop: one task per round
fetch_all_rounds_async ==
    /\ rd_batch = "idle"
    /\ rd_batch' = "running"
    /\ rd_pc' = [n \in Rounds |-> "created"]
    /\ UNCHANGED <<rd_semaphore_limit, rd_only_finished, rd_save_empty, rd_file, rd_attempt,
                   rd_pending, rd_status, rd_ret, rd_branch, rd_results, rd_season_vars>>

\* how os.remove of a corrupt file can end
RemoveOutcomes == {"ok", "failed"}

\* what _fetch_and_save_round does with round_{n}.json before any request:
\* "serve" returns the loaded data, "skip" returns None, "refetch" removes the
\* file (json.JSONDecodeError) and goes on to the request, "raise" lets any
\* other exception of open/json.load/_is_empty_round_data escape, "request"
\* is the path of a file that does not exist
LocalFileRefetchesEmpty(kind) ==
    CASE kind \in {"finished", "mixed", "unfinished"} -> "serve"
      [] kind \in {"empty", "corrupt"} -> "refetch"
      [] kind = "unreadable" -> "raise"
      [] OTHER -> "request"
LocalFile(kind) ==
    CASE kind \in {"finished", "mixed", "unfinished"} -> "serve"
      [] kind = "empty" -> "skip"
      [] kind = "corrupt" -> "refetch"
      [] kind = "unreadable" -> "raise"
      [] OTHER -> "request"

\* _fetch_and_save_round up to its first await: the local file, if any
RoundTaskStart(n, r) ==
    /\ rd_batch = "running"
    /\ rd_pc[n] = "created"
    /\ CASE LocalFile(rd_file[n]) = "serve" ->
              /\ r = "ok"
              /\ RoundDone(n, "data", "disk")
              /\ UNCHANGED <<rd_file, rd_attempt>>
         [] LocalFile(rd_file[n]) = "skip" ->
              /\ r = "ok"
              /\ RoundDone(n, "None", "disk_empty")
              /\ UNCHANGED <<rd_file, rd_attempt>>
         [] LocalFile(rd_file[n]) = "raise" ->
              \* open() or json.load raise something that is no JSONDecodeError
              /\ r = "ok"
              /\ RoundDone(n, "raised", "task_error")
              /\ UNCHANGED <<rd_file, rd_attempt>>
         [] LocalFile(rd_file[n]) = "refetch" /\ r = "failed" ->
              \* os.remove raises inside the except clause: the task raises
              /\ RoundDone(n, "raised", "task_error")
              /\ UNCHANGED <<rd_file, rd_attempt>>
         [] LocalFile(rd_file[n]) = "refetch" /\ r = "ok" ->
              /\ RoundMayRequest(n)
              \* the file is removed before the request
              /\ rd_file' = [rd_file EXCEPT ![n] = "absent"]
              /\ rd_pc' = [rd_pc EXCEPT ![n] = "request"]
              /\ rd_attempt' = [rd_attempt EXCEPT ![n] = 0]
              /\ UNCHANGED <<rd_ret, rd_branch, rd_results, rd_batch>>
         [] LocalFile(rd_file[n]) = "request" ->
              /\ r = "ok"
              /\ RoundMayRequest(n)
              /\ rd_pc' = [rd_pc EXCEPT ![n] = "request"]
              /\ rd_attempt' = [rd_attempt EXCEPT ![n] = 0]
              /\ UNCHANGED <<rd_file, rd_ret, rd_branch, rd_results, rd_batch>>
    /\ UNCHANGED <<rd_semaphore_limit, rd_only_finished, rd_save_empty, rd_pending, rd_status,
                   rd_season_vars>>

\* the part of _fetch_and_save_round after the request returned `body`
RoundProcess(n, body, w) ==
    LET wok == (w = "ok")
        \* open(file_path, "w") fails, or json.dump fails half way
        written(kind) == [rd_file EXCEPT ![n] =
                              CASE w = "ok" -> kind
                                [] w = "open_failed" -> rd_file[n]
                                [] OTHER -> "corrupt"]
        filtered_kind == IF body = "unfinished" THEN "empty" ELSE "finished"
        kind_to_save  == IF rd_only_finished THEN filtered_kind ELSE body
    IN
    CASE IsEmptyRoundData(body) ->
            IF rd_save_empty /\ body # "null"
            THEN /\ rd_file' = written("empty")
                 /\ IF wok THEN RoundDone(n, "None", "empty")
                           ELSE RoundDone(n, "None", RoundExceptBranch("OSError"))
            ELSE /\ RoundDone(n, "None", "empty")
                 /\ UNCHANGED rd_file
      [] ~IsEmptyRoundData(body) /\ body = "unfinished" /\ rd_only_finished ->
            \* finished_count == 0
            IF rd_save_empty
            THEN /\ rd_file' = written(kind_to_save)
                 /\ IF wok THEN RoundDone(n, "None", "no_finished")
                           ELSE RoundDone(n, "None", RoundExceptBranch("OSError"))
            ELSE /\ RoundDone(n, "None", "no_finished")
                 /\ UNCHANGED rd_file
      [] OTHER ->
            /\ rd_file' = written(kind_to_save)
            /\ IF wok THEN RoundDone(n, "data", "saved")
                      ELSE RoundDone(n, "None", RoundExceptBranch("OSError"))

\* one answer to the open request of round n: one iteration of the loop of
\* make_api_request_async and, when the call is over, the rest of the task
RoundResponse(n, answer, w) ==
    /\ rd_batch = "running"
    /\ rd_pc[n] = "request"
    /\ LET resp   == ResponseOf(answer)
           exc    == RaisedInTry(resp, rd_attempt[n], MAX_RETRIES)
           clause == ExceptClause(exc)
           last   == IsLastAttempt(rd_attempt[n], MAX_RETRIES)
       IN
       /\ rd_status' = [rd_status EXCEPT ![n] = StatusOf(resp)]
       /\ CASE exc = "none" ->
                 /\ RoundProcess(n, answer, w)
                 /\ UNCHANGED <<rd_attempt, rd_pending>>
            [] StatusOf(resp) = 429 ->
                 \* sleeps inside the response context, then continues or raises
                 /\ w = "ok"
                 /\ rd_pc' = [rd_pc EXCEPT ![n] = "ratesleep"]
                 /\ rd_pending' = [rd_pending EXCEPT ![n] =
                                      IF exc = "continue" THEN "none" ELSE exc]
                 /\ UNCHANGED <<rd_file, rd_attempt, rd_ret, rd_branch, rd_results, rd_batch>>
            [] StatusOf(resp) # 429 /\ exc # "none" /\ clause = "reraise" ->
                 /\ w = "ok"
                 /\ RoundDone(n, "None", RoundExceptBranch(exc))
                 /\ UNCHANGED <<rd_file, rd_attempt, rd_pending>>
            [] StatusOf(resp) # 429 /\ exc # "none" /\ clause # "reraise" ->
                 /\ w = "ok"
                 /\ IF ~last
                    THEN /\ rd_pc' = [rd_pc EXCEPT ![n] = "backoff"]
                         /\ rd_pending' = [rd_pending EXCEPT ![n] = "none"]
                         /\ UNCHANGED <<rd_file, rd_attempt, rd_ret, rd_branch,
                                        rd_results, rd_batch>>
                    ELSE /\ RoundDone(n, "None",
                                RoundExceptBranch(IF clause = "network" THEN "NetworkError"
                                                  ELSE "SofaScoreScraperError"))
                         /\ UNCHANGED <<rd_file, rd_attempt, rd_pending>>
    /\ UNCHANGED <<rd_semaphore_limit, rd_only_finished, rd_save_empty, rd_season_vars>>

\* the backoff sleep of round n is over: next attempt, or the pending raise
RoundWake(n) ==
    /\ rd_batch = "running"
    /\ rd_pc[n] \in {"ratesleep", "backoff"}
    /\ IF rd_pending[n] = "none"
       THEN /\ rd_pc' = [rd_pc EXCEPT ![n] = "request"]
            /\ rd_attempt' = [rd_attempt EXCEPT ![n] = rd_attempt[n] + 1]
            /\ UNCHANGED <<rd_ret, rd_branch, rd_results, rd_batch>>
       ELSE /\ RoundDone(n, "None", RoundExceptBranch(rd_pending[n]))
            /\ UNCHANGED rd_attempt
    /\ rd_pending' = [rd_pending EXCEPT ![n] = "none"]
    /\ UNCHANGED <<rd_semaphore_limit, rd_only_finished, rd_save_empty, rd_file, rd_status,
                   rd_season_vars>>

\* every task is done: fetch_all_rounds_async returns valid_results
RoundsReturn ==
    /\ rd_batch = "running"
    /\ \A n \in Rounds : rd_pc[n] = "done"
    /\ rd_batch' = "returned"
    /\ UNCHANGED <<rd_semaphore_limit, rd_only_finished, rd_save_empty, rd_file, rd_pc,
                   rd_attempt, rd_pending, rd_status, rd_ret, rd_branch, rd_results,
                   rd_season_vars>>

\* no single-round fetch has run or is pending: the season directory holds no
\* round_{n}_full.json and no round_{n}_matches.csv
RdSeasonIdle ==
    /\ rd_max_round = MaxRounds
    /\ rd_full = [n \in Rounds |-> "absent"]
    /\ rd_csv = [n \in Rounds |-> "absent"]
    /\ rd_round_number = 0

RdTaskIdle ==
    /\ rd_pc = [n \in Rounds |-> "none"]
    /\ rd_attempt = [n \in Rounds |-> 0]
    /\ rd_pending = [n \in Rounds |-> "none"]
    /\ rd_status = [n \in Rounds |-> 0]
    /\ rd_ret = [n \in Rounds |-> "pending"]
    /\ rd_branch = [n \in Rounds |-> "none"]
    /\ rd_results = <<>>

RdIdle ==
    /\ rd_semaphore_limit = 1
    /\ rd_only_finished = TRUE
    /\ rd_save_empty = FALSE
    /\ rd_file = [n \in Rounds |-> "absent"]
    /\ rd_batch = "none"
    /\ RdTaskIdle
    /\ RdSeasonIdle

RdInit ==
    /\ rd_semaphore_limit \in 1..MaxConcurrentBound
    /\ rd_only_finished \in BOOLEAN
    /\ rd_save_empty \in BOOLEAN
    /\ rd_file \in [Rounds -> {"absent", "finished", "empty", "corrupt", "unreadable"}]
    /\ rd_batch = "idle"
    /\ RdTaskIdle
    /\ RdSeasonIdle

\* _save_matches_data: round_{n}_full.json gets the filtered data, and
\* round_{n}_matches.csv a header and one row per event when there is an
\* event; each write sits in its own try block that only logs
SavedFull(old, kind, w) ==
    CASE w = "ok" -> kind
      [] w = "open_failed" -> old
      [] OTHER -> "corrupt"
SavedCsv(old, kind, w) ==
    CASE kind = "empty" -> old
      [] kind # "empty" /\ w = "ok" -> "rows"
      [] kind # "empty" /\ w = "open_failed" -> old
      [] OTHER -> "corrupt"

\* fetch_matches_for_round(league, season, rd_round_number): the blocking
\* fetch of one round. `answer` is what make_api_request ends with, a body or
\* an exception that escapes to the caller
fetch_matches_for_round(answer, wj, wc) ==
    /\ rd_batch = "idle"
    /\ rd_round_number \in Rounds
    /\ LET n == rd_round_number
           filtered_kind == IF answer = "unfinished" THEN "empty" ELSE "finished"
       IN
       IF answer \in RoundBodies /\ ~IsEmptyRoundData(answer)
       THEN /\ rd_full' = [rd_full EXCEPT ![n] = SavedFull(rd_full[n], filtered_kind, wj)]
            /\ rd_csv' = [rd_csv EXCEPT ![n] = SavedCsv(rd_csv[n], filtered_kind, wc)]
       ELSE /\ wj = "ok"
            /\ wc = "ok"
            /\ UNCHANGED <<rd_full, rd_csv>>
    /\ rd_round_number' = 0
    /\ UNCHANGED <<rd_semaphore_limit, rd_only_finished, rd_save_empty, rd_batch, rd_file,
                   rd_pc, rd_attempt, rd_pending, rd_status, rd_ret, rd_branch, rd_results,
                   rd_max_round>>

\* a season batch over a directory in which an earlier run left a
\* round_{n}.json for every round
RdInitCached ==
    /\ rd_semaphore_limit = 1
    /\ rd_only_finished \in BOOLEAN
    /\ rd_save_empty = TRUE
    /\ rd_file \in [Rounds -> {"finished", "empty", "corrupt"}]
    /\ rd_batch = "idle"
    /\ RdTaskIdle
    /\ RdSeasonIdle

\* fetch_all_rounds_for_season(league, season, max_round) of a season of which
\* an earlier run cached every round but the first, possibly after one
\* single-round fetch
RdInitSeason ==
    /\ rd_semaphore_limit = 1
    /\ rd_only_finished \in BOOLEAN
    /\ rd_save_empty = FALSE
    /\ rd_file = [n \in Rounds |-> IF n = 1 THEN "absent" ELSE "finished"]
    /\ rd_batch = "idle"
    /\ RdTaskIdle
    /\ rd_max_round \in 1..(MaxRounds + 1)
    /\ rd_full = [n \in Rounds |-> "absent"]
    /\ rd_csv = [n \in Rounds |-> "absent"]
    /\ rd_round_number \in {0} \cup Rounds

RdNext ==
    \/ fetch_all_rounds_async
    \/ \E n \in Rounds, r \in RemoveOutcomes : RoundTaskStart(n, r)
    \/ \E n \in Rounds, answer \in RoundAnswers, w \in WriteOutcomes : RoundResponse(n, answer, w)
    \/ \E n \in Rounds : RoundWake(n)
    \/ RoundsReturn

\* the round batch, and the single-round fetch a caller may make before it
RdSeasonNext ==
    \/ RdNext
    \/ \E answer \in RoundBodies \cup {"raised"}, wj \in WriteOutcomes, wc \in WriteOutcomes :
           fetch_matches_for_round(answer, wj, wc)


\* ========================================================================
\* Match-detail batch: MatchDataFetcher.fetch_matches_batch_async
\* ========================================================================
\* longest list of match IDs handed to one call
MaxMatches == 2
\* batch_size (100 in the source), scaled down
BatchSize == 2
\* largest max_concurrent handed to one call
MaxMatchConcurrent == 2
\* max_retries of fetch_with_retry
FETCH_MAX_RETRIES == 3

IdList == <<"m1", "m2", "m3", "m4", "m5">>
\* a list of more than one batch has BatchSize + 1 IDs
MaxTasks == IF MaxMatches > BatchSize + 1 THEN MaxMatches ELSE BatchSize + 1
Tasks == 1..MaxTasks
MatchIds == { IdList[i] : i \in Tasks }
SubKeys == {"statistics", "team_streaks", "pregame_form", "h2h"}

\* the directory every persisted match of the model belongs to:
\* match_details/Premier_League/season_24_25/{match_id}/
LeagueDir == "Premier_League"
\* number of values the jitter of a backoff sleep is drawn from
JitterResolution == 2

VARIABLES
    md_match_ids,       \* the match_ids argument
    md_max_concurrent,  \* the max_concurrent argument
    md_calls_left,      \* calls of fetch_matches_batch_async still to come
    md_call,            \* number of the current call (0: none yet)
    md_phase,           \* "idle" | "running" | "returned"
    md_legacy,          \* match IDs with a flat directory match_details/{match_id}/
    md_disk,            \* match ID -> its directory under LeagueDir/season
    md_snapshot,        \* md_disk as it was when the current call began
    md_http,            \* match IDs an HTTP request was sent for in the current call
    md_to_process,      \* match_ids_to_process, as positions of md_match_ids
    md_batch_idx,       \* batch_idx
    md_conn_closed,     \* the TCPConnector `conn` has been closed
    md_pauses,          \* number of asyncio.sleep(1.0) pauses taken between batches
    md_progress,        \* sum of the progress_bar.update(n) calls of the current call
    md_pc,              \* position of the task of list position i
    md_attempt,         \* `attempt` of fetch_with_retry
    md_sub,             \* the four sub-fetches of the task
    md_result,          \* what fetch_with_retry returned
    md_results,         \* the keys of `results`
    md_basic,           \* what the last answer to GET /event/{id} carried as "event"
    md_wait             \* wait_time of the backoff sleep the task is in

md_vars == <<md_match_ids, md_max_concurrent, md_calls_left, md_call, md_phase, md_legacy,
             md_disk, md_snapshot, md_http, md_to_process, md_batch_idx, md_conn_closed, md_pauses, md_progress,
             md_pc, md_attempt, md_sub, md_result, md_results, md_basic, md_wait>>

NoDir == [full |-> "absent", data |-> {}, files |-> {}]
NoSubs == [k \in SubKeys |-> "idle"]
NoWait == [base |-> 0, jitter |-> 0]

\* random.uniform(0, 1) in steps of 1/JitterResolution
Jitters == 0..(JitterResolution - 1)

\* wait_time of fetch_with_retry without its jitter: retry_delay * (2 ** attempt)
RetryWaitShifted(attempt) == 1 * Pow2(attempt + 1)
RetryWait(attempt) == 1 * Pow2(attempt)

IdOf(i) == md_match_ids[i]

\* os.listdir(match_details): "processed", the league directories, and the
\* flat directories of the old layout
TopLevelDirs ==
    {"processed"}
    \cup (IF \E id \in MatchIds : md_disk[id] # NoDir THEN {LeagueDir} ELSE {})
    \cup md_legacy

\* str(id) in processed_ids
AlreadyProcessed(id) == id \in TopLevelDirs

\* [id for id in match_ids if str(id) not in processed_ids]
RECURSIVE ToProcessFrom(_)
ToProcessFrom(i) ==
    IF i > Len(md_match_ids) THEN <<>>
    ELSE IF AlreadyProcessed(IdOf(i)) THEN ToProcessFrom(i + 1)
         ELSE <<i>> \o ToProcessFrom(i + 1)

\* match_ids_to_process[b*batch_size : (b+1)*batch_size]
BatchOf(to_process, b) ==
    { to_process[p] : p \in { q \in 1..Len(to_process) :
                                q > b * BatchSize /\ q <= (b + 1) * BatchSize } }
NumBatches(to_process) == (Len(to_process) + BatchSize - 1) \div BatchSize

\* asyncio.Semaphore(max_concurrent): the tasks inside `async with sem`
SemHolders == { i \in Tasks : md_pc[i] \in {"basic_wait", "basic_open", "rl_sleep",
                                            "subs"} }
\* TCPConnector(limit=max_concurrent): the requests that hold a connection
OpenRequests ==
    Cardinality({ i \in Tasks : md_pc[i] \in {"basic_open", "rl_sleep"} })
    + Cardinality({ ik \in Tasks \X SubKeys : md_sub[ik[1]][ik[2]] = "open" })
ConnectionFreeUnlimited == TRUE
ConnectionFree == OpenRequests < md_max_concurrent

\* fetch_with_retry after an exception of attempt `attempt`
MatchFailed(i) ==
    IF md_attempt[i] < FETCH_MAX_RETRIES - 1
    THEN /\ md_pc' = [md_pc EXCEPT ![i] = "backoff"]
         /\ \E j \in Jitters :
               md_wait' = [md_wait EXCEPT ![i] =
                              [base |-> RetryWait(md_attempt[i]), jitter |-> j]]
         /\ UNCHANGED <<md_result, md_attempt, md_progress>>
    ELSE /\ md_pc' = [md_pc EXCEPT ![i] = "done"]
         /\ md_result' = [md_result EXCEPT ![i] = "None"]
         /\ md_progress' = md_progress + 1
         /\ UNCHANGED <<md_attempt, md_wait>>

\* fetch_with_retry updates the progress bar and returns: its frame, and
\* `attempt` with it, is gone
MatchReturned(i, result) ==
    /\ md_pc' = [md_pc EXCEPT ![i] = "done"]
    /\ md_progress' = md_progress + 1
    /\ md_result' = [md_result EXCEPT ![i] = result]
    /\ md_attempt' = [md_attempt EXCEPT ![i] = 0]

\* already_processed, which the progress bar is updated by (0 when nothing
\* was filtered out and no update is made)
AlreadyProcessedCountNone(to_process) == 0
AlreadyProcessedCount(to_process) == Len(md_match_ids) - Len(to_process)

\* the call up to the first batch: pre-filter, connector, tasks of batch 0
fetch_matches_batch_async ==
    /\ md_phase \in {"idle", "returned"}
    /\ md_calls_left > 0
    /\ md_calls_left' = md_calls_left - 1
    /\ md_call' = md_call + 1
    /\ md_snapshot' = md_disk
    /\ md_http' = {}
    /\ md_results' = {}
    /\ md_conn_closed' = FALSE
    /\ md_pauses' = 0
    /\ md_batch_idx' = 0
    /\ LET to_process == ToProcessFrom(1)
       IN /\ md_to_process' = to_process
          /\ md_progress' = AlreadyProcessedCount(to_process)
          /\ md_phase' = IF to_process = <<>> THEN "returned" ELSE "running"
          /\ md_pc' = [i \in Tasks |->
                          IF i > Len(md_match_ids) THEN "none"
                          ELSE IF i \in BatchOf(to_process, 0) THEN "acquire"
                          ELSE IF \E p \in 1..Len(to_process) : to_process[p] = i THEN "queued"
                          ELSE "skipped"]
    /\ md_attempt' = [i \in Tasks |-> 0]
    /\ md_sub' = [i \in Tasks |-> NoSubs]
    /\ md_result' = [i \in Tasks |-> "pending"]
    /\ md_basic' = [i \in Tasks |-> "none"]
    /\ md_wait' = [i \in Tasks |-> NoWait]
    /\ UNCHANGED <<md_match_ids, md_max_concurrent, md_legacy, md_disk>>

\* `async with sem:` entered; _fetch_match_data_async calls session.get, which
\* raises at once when the connector of the session is closed
MatchAcquire(i) ==
    /\ md_phase = "running"
    /\ md_pc[i] = "acquire"
    /\ Cardinality(SemHolders) < md_max_concurrent
    /\ IF md_conn_closed
       THEN MatchFailed(i)
       ELSE /\ md_pc' = [md_pc EXCEPT ![i] = "basic_wait"]
            /\ UNCHANGED <<md_result, md_attempt, md_wait, md_progress>>
    /\ UNCHANGED md_basic
    /\ UNCHANGED <<md_match_ids, md_max_concurrent, md_calls_left, md_call, md_phase,
                   md_legacy, md_disk, md_snapshot, md_http, md_to_process, md_batch_idx,
                   md_conn_closed, md_pauses, md_sub, md_results>>

\* the connector hands a connection to the basic request, which is sent
MatchBasicConnect(i) ==
    /\ md_phase = "running"
    /\ md_pc[i] = "basic_wait"
    /\ ConnectionFree
    /\ md_pc' = [md_pc EXCEPT ![i] = "basic_open"]
    /\ md_http' = md_http \cup {IdOf(i)}
    /\ UNCHANGED <<md_basic, md_wait>>
    /\ UNCHANGED <<md_match_ids, md_max_concurrent, md_calls_left, md_call, md_phase,
                   md_legacy, md_disk, md_snapshot, md_to_process, md_batch_idx,
                   md_conn_closed, md_pauses, md_progress, md_attempt, md_sub, md_result, md_results>>

\* the total timeout of the session runs out while the basic request waits
\* for a connection: asyncio.TimeoutError out of session.get
MatchBasicTimeout(i) ==
    /\ md_phase = "running"
    /\ md_pc[i] = "basic_wait"
    /\ MatchFailed(i)
    /\ UNCHANGED md_basic
    /\ UNCHANGED <<md_match_ids, md_max_concurrent, md_calls_left, md_call, md_phase,
                   md_legacy, md_disk, md_snapshot, md_http, md_to_process, md_batch_idx,
                   md_conn_closed, md_pauses, md_sub, md_results>>

\* answers to GET /event/{match_id}: a 200 whose event is over in regular
\* time, has not started, or was decided on penalties, a 200 without "event",
\* a 200 that is not JSON, other statuses, a network error
BasicAnswers == {"finished", "unfinished", "penalties", "noevent", "badjson", "s429", "s404",
                 "neterr"}

\* status.description and status.type of the event of a 200 answer
BasicStatus(answer) ==
    CASE answer = "finished"   -> <<"Ended", "finished">>
      [] answer = "unfinished" -> <<"Not started", "notstarted">>
      [] answer = "penalties"  -> <<"AP", "finished">>
      [] OTHER                 -> <<"", "">>

\* what the answer carries as data["event"]: nothing ("none": no 200, or no
\* JSON), a falsy event ("missing"), or an event with its status
PayloadClass(answer) ==
    CASE answer \in {"finished", "unfinished", "penalties"} ->
              IF BasicStatus(answer) = <<"Ended", "finished">> THEN "ended" ELSE "not_ended"
      [] answer = "noevent" -> "missing"
      [] OTHER -> "none"

\* the negation of `status_desc != "Ended" or status_type != "finished"`
MatchIsFinishedEither(status) == status[1] = "Ended" \/ status[2] = "finished"
MatchIsFinished(status) == ~(status[1] # "Ended" \/ status[2] # "finished")

MatchBasicResponse(i, answer) ==
    /\ md_phase = "running"
    /\ md_pc[i] = "basic_open"
    /\ md_basic' = [md_basic EXCEPT ![i] = PayloadClass(answer)]
    /\ CASE answer \in {"finished", "unfinished", "penalties"}
              /\ MatchIsFinished(BasicStatus(answer)) ->
              \* body read, connection released; the four sub-fetches start
              \* from here on nothing raises into fetch_with_retry (sub-fetch
              \* errors are swallowed, gather has return_exceptions=True,
              \* _save_match_data catches its own): `attempt` is not read again
              /\ md_pc' = [md_pc EXCEPT ![i] = "subs"]
              /\ md_sub' = [md_sub EXCEPT ![i] = [k \in SubKeys |-> "wait"]]
              /\ md_attempt' = [md_attempt EXCEPT ![i] = 0]
              /\ UNCHANGED <<md_result, md_wait, md_progress>>
         [] \/ answer \in {"finished", "unfinished", "penalties"}
                  /\ ~MatchIsFinished(BasicStatus(answer))
            \/ answer \in {"noevent", "s404"} ->
              \* return None
              /\ MatchReturned(i, "None")
              /\ UNCHANGED <<md_sub, md_wait>>
         [] answer = "s429" ->
              /\ md_pc' = [md_pc EXCEPT ![i] = "rl_sleep"]
              /\ UNCHANGED <<md_sub, md_result, md_attempt, md_wait, md_progress>>
         [] answer \in {"badjson", "neterr"} ->
              /\ MatchFailed(i)
              /\ UNCHANGED md_sub
    /\ UNCHANGED <<md_match_ids, md_max_concurrent, md_calls_left, md_call, md_phase,
                   md_legacy, md_disk, md_snapshot, md_http, md_to_process, md_batch_idx,
                   md_conn_closed, md_pauses, md_results>>

\* after the 2-3 s sleep of the 429 branch: raise Exception("Rate limit exceeded")
MatchRateLimitWake(i) ==
    /\ md_phase = "running"
    /\ md_pc[i] = "rl_sleep"
    /\ MatchFailed(i)
    /\ UNCHANGED md_basic
    /\ UNCHANGED <<md_match_ids, md_max_concurrent, md_calls_left, md_call, md_phase,
                   md_legacy, md_disk, md_snapshot, md_http, md_to_process, md_batch_idx,
                   md_conn_closed, md_pauses, md_sub, md_results>>

\* the backoff sleep of fetch_with_retry is over: next attempt
MatchBackoffWake(i) ==
    /\ md_phase = "running"
    /\ md_pc[i] = "backoff"
    /\ md_pc' = [md_pc EXCEPT ![i] = "acquire"]
    /\ md_attempt' = [md_attempt EXCEPT ![i] = md_attempt[i] + 1]
    /\ md_wait' = [md_wait EXCEPT ![i] = NoWait]
    /\ UNCHANGED md_basic
    /\ UNCHANGED <<md_match_ids, md_max_concurrent, md_calls_left, md_call, md_phase,
                   md_legacy, md_disk, md_snapshot, md_http, md_to_process, md_batch_idx,
                   md_conn_closed, md_pauses, md_progress, md_sub, md_result, md_results>>

\* _fetch_endpoint_async: the connector hands a connection to sub-fetch k
SubConnect(i, k) ==
    /\ md_phase = "running"
    /\ md_pc[i] = "subs"
    /\ md_sub[i][k] = "wait"
    /\ ConnectionFree
    /\ md_sub' = [md_sub EXCEPT ![i][k] = "open"]
    /\ md_http' = md_http \cup {IdOf(i)}
    /\ UNCHANGED <<md_basic, md_wait>>
    /\ UNCHANGED <<md_match_ids, md_max_concurrent, md_calls_left, md_call, md_phase,
                   md_legacy, md_disk, md_snapshot, md_to_process, md_batch_idx,
                   md_conn_closed, md_pauses, md_progress, md_pc, md_attempt, md_result, md_results>>

\* _fetch_endpoint_async returns (key, json) on a 200 and (key, None) on any
\* other status or exception, a timeout while waiting for a connection included
SubResponse(i, k, ok) ==
    /\ md_phase = "running"
    /\ md_pc[i] = "subs"
    /\ \/ md_sub[i][k] = "open"
       \/ md_sub[i][k] = "wait" /\ ~ok
    /\ md_sub' = [md_sub EXCEPT ![i][k] = IF ok THEN "ok" ELSE "null"]
    /\ UNCHANGED <<md_basic, md_wait>>
    /\ UNCHANGED <<md_match_ids, md_max_concurrent, md_calls_left, md_call, md_phase,
                   md_legacy, md_disk, md_snapshot, md_http, md_to_process, md_batch_idx,
                   md_conn_closed, md_pauses, md_progress, md_pc, md_attempt, md_result, md_results>>

\* _save_match_data: full_data.json, then one file per key that is not None;
\* an exception is logged and swallowed
SavedDirWritingNulls(old, data, w) ==
    CASE w = "ok"           -> [full |-> "ok", data |-> data,
                                files |-> old.files \cup SubKeys \cup {"basic"}]
      [] w = "open_failed"  -> old
      [] OTHER              -> [old EXCEPT !.full = "corrupt", !.data = {}]
SavedDir(old, data, w) ==
    CASE w = "ok"           -> [full |-> "ok", data |-> data,
                                files |-> old.files \cup data \cup {"basic"}]
      [] w = "open_failed"  -> old
      [] OTHER              -> [old EXCEPT !.full = "corrupt", !.data = {}]

\* gather is over: save and return match_data
MatchSave(i, w) ==
    /\ md_phase = "running"
    /\ md_pc[i] = "subs"
    /\ \A k \in SubKeys : md_sub[i][k] \in {"ok", "null"}
    /\ LET data == { k \in SubKeys : md_sub[i][k] = "ok" }
       IN md_disk' = [md_disk EXCEPT ![IdOf(i)] = SavedDir(md_disk[IdOf(i)], data, w)]
    /\ MatchReturned(i, "data")
    /\ md_sub' = [md_sub EXCEPT ![i] = NoSubs]
    /\ UNCHANGED <<md_basic, md_wait>>
    /\ UNCHANGED <<md_match_ids, md_max_concurrent, md_calls_left, md_call, md_phase,
                   md_legacy, md_snapshot, md_http, md_to_process, md_batch_idx,
                   md_conn_closed, md_pauses, md_results>>

\* `if batch_idx < len(all_batches) - 1`: the pause after a batch
PauseAfterEvery(batch_idx, batches) == TRUE
PauseAfter(batch_idx, batches) == batch_idx < batches - 1

\* gather of the batch is over: results are collected, the session is left
\* (which closes its connector), the pause is taken, and the next batch starts
\* or the call returns
MatchBatchDone ==
    /\ md_phase = "running"
    /\ LET batch == BatchOf(md_to_process, md_batch_idx)
           next  == BatchOf(md_to_process, md_batch_idx + 1)
       IN /\ \A i \in batch : md_pc[i] = "done"
          /\ md_results' = md_results \cup { IdOf(i) : i \in { j \in batch : md_result[j] = "data" } }
          /\ md_conn_closed' = TRUE
          /\ md_pauses' = IF PauseAfter(md_batch_idx, NumBatches(md_to_process))
                          THEN md_pauses + 1 ELSE md_pauses
          /\ IF md_batch_idx < NumBatches(md_to_process) - 1
             THEN /\ md_batch_idx' = md_batch_idx + 1
                  /\ md_pc' = [i \in Tasks |-> IF i \in next THEN "acquire" ELSE md_pc[i]]
                  /\ UNCHANGED md_phase
             ELSE /\ md_phase' = "returned"
                  /\ UNCHANGED <<md_batch_idx, md_pc>>
    /\ UNCHANGED <<md_basic, md_wait>>
    /\ UNCHANGED <<md_match_ids, md_max_concurrent, md_calls_left, md_call, md_legacy,
                   md_disk, md_snapshot, md_http, md_to_process, md_attempt, md_sub,
                   md_result, md_progress>>

MdTaskIdle ==
    /\ md_call = 0
    /\ md_phase = "idle"
    /\ md_disk = [id \in MatchIds |-> NoDir]
    /\ md_snapshot = [id \in MatchIds |-> NoDir]
    /\ md_http = {}
    /\ md_to_process = <<>>
    /\ md_batch_idx = 0
    /\ md_conn_closed = FALSE
    /\ md_pauses = 0
    /\ md_progress = 0
    /\ md_pc = [i \in Tasks |-> "none"]
    /\ md_attempt = [i \in Tasks |-> 0]
    /\ md_sub = [i \in Tasks |-> NoSubs]
    /\ md_result = [i \in Tasks |-> "pending"]
    /\ md_results = {}
    /\ md_basic = [i \in Tasks |-> "none"]
    /\ md_wait = [i \in Tasks |-> NoWait]

MdIdle ==
    /\ md_match_ids = <<>>
    /\ md_max_concurrent = 1
    /\ md_calls_left = 0
    /\ md_legacy = {}
    /\ MdTaskIdle

\* one call with a list of up to MaxMatches IDs
MdInit ==
    /\ md_match_ids \in { SubSeq(IdList, 1, n) : n \in 1..MaxMatches }
    /\ md_max_concurrent \in 1..MaxMatchConcurrent
    /\ md_calls_left = 1
    /\ md_legacy \in SUBSET {"m1"}
    /\ MdTaskIdle

\* one call with a list that needs more than one batch
MdInitBatches ==
    /\ md_match_ids = SubSeq(IdList, 1, BatchSize + 1)
    /\ md_max_concurrent = 1
    /\ md_calls_left = 1
    /\ md_legacy = {}
    /\ MdTaskIdle

\* the same single ID fetched by two calls in a row
MdInitTwice ==
    /\ md_match_ids = <<"m1">>
    /\ md_max_concurrent = 1
    /\ md_calls_left = 2
    /\ md_legacy \in SUBSET {"m1"}
    /\ MdTaskIdle

\* one call with any list of up to MaxMatches IDs, repeated IDs included: the
\* pre-filter removes the processed IDs and nothing else
MdInitLists ==
    /\ \E n \in 1..MaxMatches : md_match_ids \in [1..n -> {"m1", "m2"}]
    /\ md_max_concurrent = 1
    /\ md_calls_left = 1
    /\ md_legacy = {}
    /\ MdTaskIdle

\* one call with a list of up to MaxMatches IDs whose tasks take turns on one
\* semaphore slot and one connection
MdInitSerial ==
    /\ md_match_ids \in { SubSeq(IdList, 1, n) : n \in 1..MaxMatches }
    /\ md_max_concurrent = 1
    /\ md_calls_left = 1
    /\ md_legacy \in SUBSET {"m1"}
    /\ MdTaskIdle

\* the paths the task of list position i has opened for writing:
\* {match_dir}/full_data.json of its match once _save_match_data ran
TaskWrites(i) ==
    IF md_result[i] = "data" THEN { <<LeagueDir, IdOf(i), "full_data.json">> } ELSE {}

MdNext ==
    \/ fetch_matches_batch_async
    \/ \E i \in Tasks : MatchAcquire(i)
    \/ \E i \in Tasks : MatchBasicConnect(i)
    \/ \E i \in Tasks : MatchBasicTimeout(i)
    \/ \E i \in Tasks, answer \in BasicAnswers : MatchBasicResponse(i, answer)
    \/ \E i \in Tasks : MatchRateLimitWake(i)
    \/ \E i \in Tasks : MatchBackoffWake(i)
    \/ \E i \in Tasks, k \in SubKeys : SubConnect(i, k)
    \/ \E i \in Tasks, k \in SubKeys, ok \in BOOLEAN : SubResponse(i, k, ok)
    \/ \E i \in Tasks, w \in WriteOutcomes : MatchSave(i, w)
    \/ MatchBatchDone


\* ========================================================================
\* Season batch: SeasonFetcher.fetch_seasons_batch_async
\* ========================================================================
\* largest number of league IDs of one call
MaxLeagues == 2
\* largest max_concurrent argument
MaxSeasonConcurrent == 1
\* connections the session of create_session_async allows at a time: it is
\* built without a connector, so aiohttp's default TCPConnector(limit=100)
SessionConnectionLimit == 100

Leagues == 1..MaxLeagues

VARIABLES
    sf_league_ids,       \* the league_ids argument, as the number of IDs 1..n
    sf_max_concurrent,   \* the max_concurrent argument
    sf_phase,            \* "none" | "idle" | "running" | "returned"
    sf_pc,               \* position of the task of league l
    sf_attempt,          \* `attempt` of the request of league l
    sf_pending,          \* exception a sleeping request raises on wake-up ("none": retry)
    sf_file,             \* content of {league_id}_{name}_seasons.json
    sf_league_seasons,   \* keys of self.league_seasons
    sf_results           \* keys of `results`

sf_vars == <<sf_league_ids, sf_max_concurrent, sf_phase, sf_pc, sf_attempt, sf_pending,
             sf_file, sf_league_seasons, sf_results>>

\* the JSON bodies of a 200 answer to a seasons request: with a "seasons"
\* list, without one, or null
SeasonBodies == {"seasons", "noseasons", "null"}
SeasonAnswers == SeasonBodies \cup (Responses \ {"ok200", "s503"})

\* max_concurrent is accepted and never read: no semaphore is made from it;
\* only the connector of the session limits the open requests
SeasonMayRequest == Cardinality({l \in Leagues : sf_pc[l] = "request"}) < SessionConnectionLimit

SeasonsInFlight == Cardinality({l \in Leagues : sf_pc[l] = "request"})

\* _fetch_league_seasons_async returns: (league_id, seasons) or None
SeasonDone(l, stored) ==
    /\ sf_pc' = [sf_pc EXCEPT ![l] = "done"]
    /\ sf_results' = IF stored THEN sf_results \cup {l} ELSE sf_results
    /\ sf_league_seasons' = IF stored THEN sf_league_seasons \cup {l} ELSE sf_league_seasons

\* fetch_seasons_batch_async up to the first await: one coroutine per league
fetch_seasons_batch_async ==
    /\ sf_phase = "idle"
    /\ sf_phase' = "running"
    /\ sf_pc' = [l \in Leagues |-> IF l <= sf_league_ids THEN "created" ELSE "none"]
    /\ UNCHANGED <<sf_league_ids, sf_max_concurrent, sf_attempt, sf_pending, sf_file,
                   sf_league_seasons, sf_results>>

\* as_completed / gather schedule the coroutine: it runs up to session.get
SeasonTaskStart(l) ==
    /\ sf_phase = "running"
    /\ sf_pc[l] = "created"
    /\ SeasonMayRequest
    /\ sf_pc' = [sf_pc EXCEPT ![l] = "request"]
    /\ UNCHANGED <<sf_league_ids, sf_max_concurrent, sf_phase, sf_attempt, sf_pending,
                   sf_file, sf_league_seasons, sf_results>>

\* one answer to the open request of league l: one iteration of the loop of
\* make_api_request_async and, when the call is over, the rest of the task
SeasonResponse(l, answer, w) ==
    /\ sf_phase = "running"
    /\ sf_pc[l] = "request"
    /\ LET resp   == IF answer \in SeasonBodies THEN "ok200" ELSE answer
           exc    == RaisedInTry(resp, sf_attempt[l], MAX_RETRIES)
           clause == ExceptClause(exc)
           last   == IsLastAttempt(sf_attempt[l], MAX_RETRIES)
       IN
       CASE exc = "none" /\ answer = "seasons" ->
               \* _save_seasons_json logs and swallows a failing write
               /\ sf_file' = [sf_file EXCEPT ![l] =
                                 CASE w = "ok" -> "seasons"
                                   [] w = "open_failed" -> sf_file[l]
                                   [] OTHER -> "corrupt"]
               /\ SeasonDone(l, TRUE)
               /\ UNCHANGED sf_pending
         [] exc = "none" /\ answer # "seasons" ->
               /\ w = "ok"
               /\ SeasonDone(l, FALSE)
               /\ UNCHANGED <<sf_file, sf_pending>>
         [] StatusOf(resp) = 429 ->
               /\ w = "ok"
               /\ sf_pc' = [sf_pc EXCEPT ![l] = "sleep"]
               /\ sf_pending' = [sf_pending EXCEPT ![l] =
                                    IF exc = "continue" THEN "none" ELSE exc]
               /\ UNCHANGED <<sf_file, sf_league_seasons, sf_results>>
         [] StatusOf(resp) # 429 /\ exc # "none" /\ (clause = "reraise" \/ last) ->
               \* `except Exception` of _fetch_league_seasons_async: return None
               /\ w = "ok"
               /\ SeasonDone(l, FALSE)
               /\ UNCHANGED <<sf_file, sf_pending>>
         [] StatusOf(resp) # 429 /\ exc # "none" /\ clause # "reraise" /\ ~last ->
               /\ w = "ok"
               /\ sf_pc' = [sf_pc EXCEPT ![l] = "sleep"]
               /\ sf_pending' = [sf_pending EXCEPT ![l] = "none"]
               /\ UNCHANGED <<sf_file, sf_league_seasons, sf_results>>
    /\ UNCHANGED <<sf_league_ids, sf_max_concurrent, sf_phase, sf_attempt>>

\* the backoff sleep of league l is over: next attempt, or the pending raise
SeasonWake(l) ==
    /\ sf_phase = "running"
    /\ sf_pc[l] = "sleep"
    /\ IF sf_pending[l] = "none"
       THEN /\ sf_pc' = [sf_pc EXCEPT ![l] = "request"]
            /\ sf_attempt' = [sf_attempt EXCEPT ![l] = sf_attempt[l] + 1]
            /\ UNCHANGED <<sf_league_seasons, sf_results>>
       ELSE /\ SeasonDone(l, FALSE)
            /\ UNCHANGED sf_attempt
    /\ sf_pending' = [sf_pending EXCEPT ![l] = "none"]
    /\ UNCHANGED <<sf_league_ids, sf_max_concurrent, sf_phase, sf_file>>

\* every task is done: the session is left and `results` returned
SeasonsReturn ==
    /\ sf_phase = "running"
    /\ \A l \in Leagues : sf_pc[l] \in {"done", "none"}
    /\ sf_phase' = "returned"
    /\ UNCHANGED <<sf_league_ids, sf_max_concurrent, sf_pc, sf_attempt, sf_pending, sf_file,
                   sf_league_seasons, sf_results>>

SfTaskIdle ==
    /\ sf_pc = [l \in Leagues |-> "none"]
    /\ sf_attempt = [l \in Leagues |-> 0]
    /\ sf_pending = [l \in Leagues |-> "none"]
    /\ sf_file = [l \in Leagues |-> "absent"]
    /\ sf_league_seasons = {}
    /\ sf_results = {}

SfIdle ==
    /\ sf_league_ids = 0
    /\ sf_max_concurrent = 1
    /\ sf_phase = "none"
    /\ SfTaskIdle

SfInit ==
    /\ sf_league_ids \in 1..MaxLeagues
    /\ sf_max_concurrent \in 1..MaxSeasonConcurrent
    /\ sf_phase = "idle"
    /\ SfTaskIdle

SfNext ==
    \/ fetch_seasons_batch_async
    \/ \E l \in Leagues : SeasonTaskStart(l)
    \/ \E l \in Leagues, answer \in SeasonAnswers, w \in WriteOutcomes : SeasonResponse(l, answer, w)
    \/ \E l \in Leagues : SeasonWake(l)
    \/ SeasonsReturn

\* ========================================================================
\* Season choice: SeasonFetcher.get_current_season_id
\* ========================================================================
\* largest number of seasons in the seasons file of the league
MaxSeasons == 3

\* the "year" strings of the seasons file, by their shape: "yy/zz" and
\* "yyyy/zzzz" with the two numbers, "yyyy" with the one, "" as "none";
\* `name` is the first year the pattern 20\d\d finds in the season's name, 0
\* when it finds none
NoYear(name) == [fmt |-> "none", start |-> 0, end |-> 0, name |-> name]
YearStrings ==
    { [fmt |-> "yy/zz", start |-> 98, end |-> 99, name |-> 0],
      [fmt |-> "yy/zz", start |-> 99, end |-> 0, name |-> 0],
      [fmt |-> "yy/zz", start |-> 25, end |-> 26, name |-> 0],
      [fmt |-> "yy/zz", start |-> 26, end |-> 27, name |-> 0],
      [fmt |-> "yyyy/zzzz", start |-> 2026, end |-> 2027, name |-> 0],
      [fmt |-> "yyyy", start |-> 2027, end |-> 0, name |-> 0],
      NoYear(0),
      NoYear(2026) }

\* one season of the file: its year string and whether the league's matches
\* directory has round files or a summary of it (has_matches)
SeasonPool == { [year |-> y, has_matches |-> h] : y \in YearStrings, h \in BOOLEAN }

\* datetime.datetime.now(): the year and the month
Dates == { [year |-> y, month |-> m] : y \in {2026, 2027}, m \in {6, 7} }

VARIABLES
    cs_seasons,   \* get_seasons_for_league(league_id): the season with id i at position i
    cs_now,       \* current_year, current_month
    cs_pc,        \* "none" | "call" | "returned"
    cs_sorted,    \* sorted_seasons, as season ids
    cs_class,     \* the list each season was appended to, by season id
    cs_ret        \* the returned season id (0: no seasons)

cs_vars == <<cs_seasons, cs_now, cs_pc, cs_sorted, cs_class, cs_ret>>

\* _get_sortable_year_value(year_str)
SortableYearValue(y) ==
    CASE y.fmt = "none" -> 0
      [] y.fmt = "yy/zz" ->
            IF y.start > y.end THEN 2000 + y.end
            ELSE IF y.start < 50 THEN 2000 + y.start
            ELSE 1900 + y.start
      [] OTHER -> y.start

\* sorted(seasons, key=..., reverse=True): descending, and stable, so seasons
\* of one key keep the order of the file
RECURSIVE InsertSeason(_, _, _)
InsertSeason(i, sorted, seasons) ==
    IF sorted = <<>> THEN <<i>>
    ELSE IF SortableYearValue(seasons[Head(sorted)].year) >= SortableYearValue(seasons[i].year)
         THEN <<Head(sorted)>> \o InsertSeason(i, Tail(sorted), seasons)
         ELSE <<i>> \o sorted

RECURSIVE SortedUpTo(_, _)
SortedUpTo(k, seasons) ==
    IF k = 0 THEN <<>> ELSE InsertSeason(k, SortedUpTo(k - 1, seasons), seasons)

SortedSeasons(seasons) == SortedUpTo(Len(seasons), seasons)

\* season_year of the classification loop: the year string first, the
\* season's name when that gave nothing (None and 0 are both "nothing")
SeasonYear(y) ==
    LET fromString == CASE y.fmt = "yy/zz" -> 2000 + y.start
                        [] y.fmt = "none" -> 0
                        [] OTHER -> y.start
    IN IF fromString # 0 THEN fromString ELSE y.name

\* the list a season of year season_year at position idx of sorted_seasons
\* is appended to
SeasonClass(season_year, idx, now) ==
    IF season_year # 0
    THEN CASE season_year > now.year -> "future"
           [] season_year = now.year -> "active"
           [] season_year = now.year - 1 -> IF now.month <= 6 THEN "active" ELSE "past"
           [] OTHER -> "past"
    ELSE IF idx < 2 THEN "active" ELSE "past"

\* the first season of `sorted` that `wanted` holds of, 0 when there is none
RECURSIVE FirstSeason(_, _)
FirstSeason(sorted, wanted) ==
    IF sorted = <<>> THEN 0
    ELSE IF wanted[Head(sorted)] THEN Head(sorted)
    ELSE FirstSeason(Tail(sorted), wanted)

\* the position idx (from 0) of season i in sorted_seasons
RECURSIVE IndexIn(_, _)
IndexIn(sorted, i) == IF Head(sorted) = i THEN 0 ELSE 1 + IndexIn(Tail(sorted), i)

\* rules 1 to 4 of the choice, over the three lists
SelectedSeason(sorted, class, seasons) ==
    LET ids == DOMAIN seasons
        activeWithMatches == FirstSeason(sorted,
            [i \in ids |-> class[i] = "active" /\ seasons[i].has_matches])
        pastWithMatches == FirstSeason(sorted,
            [i \in ids |-> class[i] = "past" /\ seasons[i].has_matches])
        active == FirstSeason(sorted, [i \in ids |-> class[i] = "active"])
    IN CASE activeWithMatches # 0 -> activeWithMatches
         [] pastWithMatches # 0 -> pastWithMatches
         [] active # 0 -> active
         [] OTHER -> sorted[1]

get_current_season_id ==
    /\ cs_pc = "call"
    /\ cs_pc' = "returned"
    /\ IF cs_seasons = <<>>
       THEN /\ cs_ret' = 0
            /\ UNCHANGED <<cs_sorted, cs_class>>
       ELSE LET sorted == SortedSeasons(cs_seasons)
                class == [i \in DOMAIN cs_seasons |->
                             SeasonClass(SeasonYear(cs_seasons[i].year), IndexIn(sorted, i), cs_now)]
            IN /\ cs_sorted' = sorted
               /\ cs_class' = class
               /\ cs_ret' = SelectedSeason(sorted, class, cs_seasons)
    /\ UNCHANGED <<cs_seasons, cs_now>>

CsIdle ==
    /\ cs_seasons = <<>>
    /\ cs_now = [year |-> 2026, month |-> 6]
    /\ cs_pc = "none"
    /\ cs_sorted = <<>>
    /\ cs_class = <<>>
    /\ cs_ret = 0

CsInit ==
    /\ \E n \in 0..MaxSeasons : cs_seasons \in [1..n -> SeasonPool]
    /\ cs_now \in Dates
    /\ cs_pc = "call"
    /\ cs_sorted = <<>>
    /\ cs_class = <<>>
    /\ cs_ret = 0

CsNext == get_current_season_id


\* ========================================================================
\* Sort key of a season: SeasonFetcher._get_sortable_year_value
\* ========================================================================
\* longest year string
MaxYearLen == 5

\* the characters of a year string: two digits, a character that is no
\* digit, and the separator
YearChars == {"0", "9", "x", "/"}
YearStr == UNION { [1..n -> YearChars] : n \in 0..MaxYearLen }

DigitValue(c) == IF c = "9" THEN 9 ELSE 0

\* int(s) and float(s) accept s: digits only, at least one
IsNumber(s) == s # <<>> /\ \A k \in DOMAIN s : s[k] \in {"0", "9"}

RECURSIVE NumberOf(_)
NumberOf(s) ==
    IF s = <<>> THEN 0 ELSE 10 * NumberOf(SubSeq(s, 1, Len(s) - 1)) + DigitValue(s[Len(s)])

HasSlash(s) == \E k \in DOMAIN s : s[k] = "/"

\* parts[0] of year_str.split('/')
StartPart(s) ==
    LET k == CHOOSE k \in DOMAIN s : s[k] = "/" /\ \A j \in 1..(k - 1) : s[j] # "/"
    IN SubSeq(s, 1, k - 1)

\* parts[1] of year_str.split('/')
EndPart(s) ==
    LET k == CHOOSE k \in DOMAIN s : s[k] = "/" /\ \A j \in 1..(k - 1) : s[j] # "/"
        rest == SubSeq(s, k + 1, Len(s))
    IN IF HasSlash(rest) THEN StartPart(rest) ELSE rest

Returned(v) == [kind |-> "return", value |-> v]
ValueError == [kind |-> "ValueError", value |-> 0]

\* _get_sortable_year_value(year_str): the value returned or the exception
\* that leaves the function; int() and float() of the two- and four-digit
\* branches stand outside every try
SortableYearOfString(s) ==
    IF s = <<>> \/ s = <<"0">> THEN Returned(0)
    ELSE IF HasSlash(s)
    THEN LET start_year == StartPart(s)
             end_year == EndPart(s)
         IN CASE Len(start_year) = 2 /\ Len(end_year) = 2 ->
                    IF ~IsNumber(start_year) \/ ~IsNumber(end_year) THEN ValueError
                    ELSE IF NumberOf(start_year) > NumberOf(end_year)
                         THEN Returned(2000 + NumberOf(end_year))
                    ELSE IF NumberOf(start_year) < 50
                         THEN Returned(2000 + NumberOf(start_year))
                    ELSE Returned(1900 + NumberOf(start_year))
              [] ~(Len(start_year) = 2 /\ Len(end_year) = 2) /\ Len(start_year) = 4 ->
                    IF IsNumber(start_year) THEN Returned(NumberOf(start_year)) ELSE ValueError
              [] OTHER ->
                    IF IsNumber(start_year) THEN Returned(NumberOf(start_year)) ELSE Returned(0)
    ELSE IF IsNumber(s) THEN Returned(NumberOf(s)) ELSE Returned(0)

VARIABLES
    yv_year_str,   \* the argument
    yv_pc,         \* "none" | "call" | "left"
    yv_out         \* how the call was left

yv_vars == <<yv_year_str, yv_pc, yv_out>>

get_sortable_year_value ==
    /\ yv_pc = "call"
    /\ yv_pc' = "left"
    /\ yv_out' = SortableYearOfString(yv_year_str)
    /\ UNCHANGED yv_year_str

YvIdle ==
    /\ yv_year_str = <<>>
    /\ yv_pc = "none"
    /\ yv_out = Returned(0)

YvInit ==
    /\ yv_year_str \in YearStr
    /\ yv_pc = "call"
    /\ yv_out = Returned(0)

YvNext == get_sortable_year_value

\* ========================================================================
\* Season fallback: MatchFetcher.fetch_all_matches_for_season
\* ========================================================================
\* largest number of seasons in the seasons file of the league
MaxFallbackSeasons == 4

\* year strings of the seasons of the file
FallbackYears ==
    { [fmt |-> "yy/zz", start |-> 25, end |-> 26, name |-> 0],
      [fmt |-> "yy/zz", start |-> 26, end |-> 27, name |-> 0],
      [fmt |-> "yyyy", start |-> 2027, end |-> 0, name |-> 0],
      NoYear(2027) }

\* datetime.datetime.now(): the year and the month
FallbackDates == { [year |-> 2026, month |-> m] : m \in {7, 8} }

\* fetch_all_rounds_for_season: round summaries, an empty list, or an exception
RoundsResults == {"rounds", "empty", "raised"}

VARIABLES
    fs_seasons,       \* the seasons file: year strings, the season with id i at position i
    fs_now,           \* current_year, current_date.month
    fs_season_id,     \* season_id of the innermost call (0: not in the seasons file)
    fs_retry_count,   \* retry_count of the innermost call
    fs_pc,            \* "none" | "call" | "returned"
    fs_results,       \* what the last fetch_all_rounds_for_season gave ("none": not called)
    fs_fetched,       \* the seasons whose rounds were fetched, in order
    fs_summary,       \* the seasons _save_season_summary was called for
    fs_ret            \* the returned bool

fs_vars == <<fs_seasons, fs_now, fs_season_id, fs_retry_count, fs_pc, fs_results,
             fs_fetched, fs_summary, fs_ret>>

\* the guard on entry
RetryLimitReachedLate(retry_count) == retry_count >= 3
RetryLimitReached(retry_count) == retry_count >= 2

\* season_year: the season's name first, then the year string of the season info
FallbackSeasonYear(seasons, id) ==
    IF id \notin DOMAIN seasons THEN 0
    ELSE LET y == seasons[id]
         IN IF y.name # 0 THEN y.name
            ELSE CASE y.fmt = "yy/zz" -> 2000 + y.start
                   [] y.fmt = "none" -> 0
                   [] OTHER -> y.start

\* is_future_season, once the rounds gave nothing
IsFutureSeason(season_year, now) ==
    /\ season_year # 0
    /\ \/ season_year > now.year
       \/ season_year = now.year /\ now.month < 8

\* sorted_seasons, as season ids: descending by the sort key, seasons of one
\* key in the order of the file (sorted is stable), so a season stands
\* behind every season of a larger key and every earlier season of its key
FallbackSorted(seasons) ==
    LET before(i) == { j \in DOMAIN seasons :
                         \/ SortableYearValue(seasons[j]) > SortableYearValue(seasons[i])
                         \/ SortableYearValue(seasons[j]) = SortableYearValue(seasons[i]) /\ j < i }
    IN [p \in DOMAIN seasons |-> CHOOSE i \in DOMAIN seasons : Cardinality(before(i)) = p - 1]

\* sorted_seasons[current_index + 1], 0 when there is none
PrevSeason(seasons, id) ==
    LET sorted == FallbackSorted(seasons)
    IN IF \E k \in 1..(Len(sorted) - 1) : sorted[k] = id
       THEN sorted[1 + CHOOSE k \in 1..(Len(sorted) - 1) : sorted[k] = id]
       ELSE 0

FallbackReturn(ok) ==
    /\ fs_pc' = "returned"
    /\ fs_ret' = ok
    /\ UNCHANGED <<fs_season_id, fs_retry_count>>

\* one call of fetch_all_matches_for_season, up to its return or to the
\* recursive call
fetch_all_matches_for_season(results) ==
    /\ fs_pc = "call"
    /\ IF RetryLimitReached(fs_retry_count)
       THEN /\ results = "empty"
            /\ FallbackReturn(FALSE)
            /\ UNCHANGED <<fs_results, fs_fetched, fs_summary>>
       ELSE /\ fs_results' = results
            /\ fs_fetched' = Append(fs_fetched, fs_season_id)
            /\ CASE results = "raised" ->
                      FallbackReturn(FALSE) /\ UNCHANGED fs_summary
                 [] results = "rounds" ->
                      FallbackReturn(TRUE) /\ fs_summary' = fs_summary \cup {fs_season_id}
                 [] results = "empty" ->
                      IF IsFutureSeason(FallbackSeasonYear(fs_seasons, fs_season_id), fs_now)
                      THEN /\ UNCHANGED fs_summary
                           /\ IF PrevSeason(fs_seasons, fs_season_id) # 0
                              THEN /\ fs_season_id' = PrevSeason(fs_seasons, fs_season_id)
                                   /\ fs_retry_count' = fs_retry_count + 1
                                   /\ UNCHANGED <<fs_pc, fs_ret>>
                              ELSE FallbackReturn(FALSE)
                      ELSE /\ fs_summary' = fs_summary \cup {fs_season_id}
                           /\ FallbackReturn(FALSE)
    /\ UNCHANGED <<fs_seasons, fs_now>>

FsIdle ==
    /\ fs_seasons = <<>>
    /\ fs_now = [year |-> 2026, month |-> 7]
    /\ fs_season_id = 0
    /\ fs_retry_count = 0
    /\ fs_pc = "none"
    /\ fs_results = "none"
    /\ fs_fetched = <<>>
    /\ fs_summary = {}
    /\ fs_ret = FALSE

FsInit ==
    /\ \E n \in 0..MaxFallbackSeasons : fs_seasons \in [1..n -> FallbackYears]
    /\ fs_now \in FallbackDates
    /\ fs_season_id \in 0..Len(fs_seasons)
    /\ fs_retry_count = 0
    /\ fs_pc = "call"
    /\ fs_results = "none"
    /\ fs_fetched = <<>>
    /\ fs_summary = {}
    /\ fs_ret = FALSE

FsNext == \E results \in RoundsResults : fetch_all_matches_for_season(results)

\* ========================================================================
\* Global summary: MatchFetcher.fetch_all_leagues_current_season
\* ========================================================================
\* largest number of runs of fetch_all_leagues_current_season
MaxRuns == 3
\* number of configured leagues
MaxSummaryLeagues == 2

SummaryLeagues == 1..MaxSummaryLeagues

\* what a league contributes to `results` in one run: nothing (no current
\* season), an empty list of rounds, or rounds with events
LeagueOutcomes == {"skipped", "norounds", "rounds"}

VARIABLES
    gs_run,    \* number of runs made so far
    gs_json,   \* fetch_summary.json: "absent", "corrupt" or the keys of the dumped results
    gs_csv     \* fetch_summary.csv: "absent" or its data rows

gs_vars == <<gs_run, gs_json, gs_csv>>

\* csv_data of a run: one row per event of every round of every league of
\* `results`, in the order of the leagues (one event per league here)
RECURSIVE CsvData(_, _, _)
CsvData(run, outcome, l) ==
    IF l > MaxSummaryLeagues THEN <<>>
    ELSE (IF outcome[l] = "rounds" THEN << [run |-> run, league |-> l] >> ELSE <<>>)
         \o CsvData(run, outcome, l + 1)

\* open(path, 'w') and the writes after it: the old content is gone as soon
\* as the file is open; a write that fails leaves a part of the new content
WrittenRows(old, rows, w, k) ==
    CASE w = "ok"          -> rows
      [] w = "open_failed" -> old
      [] OTHER             -> SubSeq(rows, 1, k)

\* one run: the loop over the leagues, then _save_global_summary(results)
fetch_all_leagues_current_season(outcome, wj, wc, k) ==
    /\ gs_run < MaxRuns
    /\ gs_run' = gs_run + 1
    /\ LET results == { l \in SummaryLeagues : outcome[l] # "skipped" }
           csv_data == CsvData(gs_run + 1, outcome, 1)
       IN IF results = {}
          THEN /\ wj = "ok" /\ wc = "ok" /\ k = 0
               /\ UNCHANGED <<gs_json, gs_csv>>
          ELSE /\ gs_json' = CASE wj = "ok" -> results
                               [] wj = "open_failed" -> gs_json
                               [] OTHER -> "corrupt"
               /\ IF csv_data # <<>>
                  THEN /\ k \in 0..Len(csv_data)
                       /\ wc = "write_failed" \/ k = 0
                       /\ gs_csv' = WrittenRows(gs_csv, csv_data, wc, k)
                  ELSE /\ wc = "ok" /\ k = 0
                       /\ UNCHANGED gs_csv

GsIdle ==
    /\ gs_run = MaxRuns
    /\ gs_json = "absent"
    /\ gs_csv = "absent"

GsInit ==
    /\ gs_run = 0
    /\ gs_json = "absent"
    /\ gs_csv = "absent"

GsNext ==
    \E outcome \in [SummaryLeagues -> LeagueOutcomes], wj, wc \in WriteOutcomes,
       k \in 0..MaxSummaryLeagues :
        fetch_all_leagues_current_season(outcome, wj, wc, k)

\* ========================================================================
\* CSV of processed matches: MatchDataFetcher._write_matches_to_csv
\* ========================================================================
\* largest number of matches handed to one call
MaxCsvMatches == 2

\* priority_columns
PriorityColumns ==
    <<"match_id", "league_folder", "season_folder", "tournament_name", "season_name", "round",
      "home_team_name", "away_team_name", "home_score_ft", "away_score_ft", "match_date">>

\* the keys a processed match of the model can have, in the order sorted()
\* puts these strings in
CsvKeys == <<"away_possession", "home_possession", "match_date", "match_id", "round">>

KeySet(keys) == { keys[p] : p \in DOMAIN keys }

\* a match, as the set of its keys; each key has a value that is not empty
CsvMatches == SUBSET KeySet(CsvKeys)

\* [col for col in cols if col in wanted]
RECURSIVE Filtered(_, _)
Filtered(cols, wanted) ==
    IF cols = <<>> THEN <<>>
    ELSE (IF Head(cols) \in wanted THEN <<Head(cols)>> ELSE <<>>) \o Filtered(Tail(cols), wanted)

\* fieldnames: the priority columns that occur, then the others of
\* sorted(all_columns)
FieldnamesSorted(all_columns) == Filtered(CsvKeys, all_columns)
Fieldnames(all_columns) ==
    LET first == Filtered(PriorityColumns, all_columns)
    IN first \o Filtered(CsvKeys, all_columns \ KeySet(first))

\* DictWriter.writerow(match): one cell per field name, restval '' for a
\* missing key
CsvRow(match, r, fieldnames) ==
    [c \in DOMAIN fieldnames |->
        IF fieldnames[c] \in match THEN <<"value", r, fieldnames[c]>> ELSE ""]

VARIABLES
    cw_matches,   \* the matches argument
    cw_pc,        \* "none" | "call" | "returned"
    cw_header,    \* the header line of the file ("absent": no file)
    cw_rows,      \* the data rows of the file
    cw_ret        \* the returned bool

cw_vars == <<cw_matches, cw_pc, cw_header, cw_rows, cw_ret>>

write_matches_to_csv(w, k) ==
    /\ cw_pc = "call"
    /\ cw_pc' = "returned"
    /\ LET all_columns == UNION { cw_matches[r] : r \in DOMAIN cw_matches }
           fieldnames == Fieldnames(all_columns)
           rows == [r \in DOMAIN cw_matches |-> CsvRow(cw_matches[r], r, fieldnames)]
       IN CASE w = "ok" ->
                 /\ k = 0
                 /\ cw_header' = fieldnames
                 /\ cw_rows' = rows
                 /\ cw_ret' = TRUE
            [] w = "open_failed" ->
                 /\ k = 0
                 /\ UNCHANGED <<cw_header, cw_rows>>
                 /\ cw_ret' = FALSE
            [] OTHER ->
                 /\ k \in 0..Len(rows)
                 /\ cw_header' = fieldnames
                 /\ cw_rows' = SubSeq(rows, 1, k)
                 /\ cw_ret' = FALSE
    /\ UNCHANGED cw_matches

CwIdle ==
    /\ cw_matches = <<>>
    /\ cw_pc = "none"
    /\ cw_header = "absent"
    /\ cw_rows = <<>>
    /\ cw_ret = FALSE

CwInit ==
    /\ \E n \in 0..MaxCsvMatches : cw_matches \in [1..n -> CsvMatches]
    /\ cw_pc = "call"
    /\ cw_header = "absent"
    /\ cw_rows = <<>>
    /\ cw_ret = FALSE

CwNext == \E w \in WriteOutcomes, k \in 0..MaxCsvMatches : write_matches_to_csv(w, k)

\* ========================================================================
\* Match IDs of a league: MatchDataFetcher.fetch_all_match_details
\* ========================================================================
\* largest number of seasons of the league under data/matches
MaxDetailSeasons == 3

\* season IDs of one digit, so that the order of the ID strings the sort
\* uses is the order of the numbers
DetailSeasons == 1..MaxDetailSeasons

VARIABLES
    ad_season_dirs,    \* seasons with a directory {season_id}_{name}/ in the league directory
    ad_summaries,      \* seasons with {season_id}_{name}_summary.csv in the league directory
    ad_season_csvs,    \* seasons with a *_matches.csv or *_summary.csv in their directory
    ad_existing,       \* seasons whose matches have a full_data.json under match_details
    ad_max_seasons,    \* the max_seasons argument
    ad_pc,             \* "none" | "call" | "returned"
    ad_match_ids,      \* match_ids after list(set(...)), as the seasons the IDs are of
    ad_to_process,     \* match_ids_to_process, as the seasons the IDs are of
    ad_ret             \* the returned bool

ad_vars == <<ad_season_dirs, ad_summaries, ad_season_csvs, ad_existing, ad_max_seasons,
             ad_pc, ad_match_ids, ad_to_process, ad_ret>>

\* season_dirs after the sort (newest first) and season_dirs[:max_seasons]
SelectedSeasons(season_dirs, max_seasons) ==
    IF max_seasons > 0 /\ Cardinality(season_dirs) > max_seasons
    THEN { s \in season_dirs : Cardinality({ t \in season_dirs : t > s }) < max_seasons }
    ELSE season_dirs

\* the seasons whose CSV files are in summary_files when the IDs are read:
\* the CSV files of the league directory, the files found while the season
\* directories are listed, and the files of the selected seasons
SummaryFileSeasons(season_dirs, summaries, season_csvs, max_seasons) ==
    LET selected == SelectedSeasons(season_dirs, max_seasons)
    IN summaries
       \cup { s \in season_dirs : s \in summaries \/ s \in season_csvs }
       \cup { s \in selected : s \in summaries \/ s \in season_csvs }

\* one call for a league that has a directory; the IDs of each season's files
\* are the matches of that season
fetch_all_match_details(any_success) ==
    /\ ad_pc = "call"
    /\ ad_pc' = "returned"
    /\ LET match_ids == SummaryFileSeasons(ad_season_dirs, ad_summaries, ad_season_csvs,
                                           ad_max_seasons)
           to_process == match_ids \ ad_existing
       IN /\ ad_match_ids' = match_ids
          /\ ad_to_process' = to_process
          /\ CASE match_ids = {} -> ad_ret' = FALSE /\ ~any_success
               [] match_ids # {} /\ to_process = {} -> ad_ret' = TRUE /\ any_success
               [] OTHER -> ad_ret' = any_success
    /\ UNCHANGED <<ad_season_dirs, ad_summaries, ad_season_csvs, ad_existing, ad_max_seasons>>

AdIdle ==
    /\ ad_season_dirs = {}
    /\ ad_summaries = {}
    /\ ad_season_csvs = {}
    /\ ad_existing = {}
    /\ ad_max_seasons = 0
    /\ ad_pc = "none"
    /\ ad_match_ids = {}
    /\ ad_to_process = {}
    /\ ad_ret = FALSE

AdInit ==
    /\ ad_season_dirs \in SUBSET DetailSeasons
    /\ ad_summaries \in SUBSET ad_season_dirs
    /\ ad_season_csvs \in SUBSET ad_season_dirs
    /\ ad_existing \in SUBSET DetailSeasons
    /\ ad_max_seasons \in 0..MaxDetailSeasons
    /\ ad_pc = "call"
    /\ ad_match_ids = {}
    /\ ad_to_process = {}
    /\ ad_ret = FALSE

AdNext == \E any_success \in BOOLEAN : fetch_all_match_details(any_success)

\* ========================================================================
\* Season summary files: MatchFetcher._save_season_summary writes them,
\* MatchFetcher.fetch_matches_for_season and
\* SeasonFetcher.get_current_season_id look for them
\* ========================================================================
\* longest league name and season name, in characters
MaxNameLen == 2

\* a letter, a space and a slash ("Premier League 24/25")
NameChars == {"a", " ", "/"}
Names == UNION { [1..n -> NameChars] : n \in 1..MaxNameLen }

VARIABLES
    sp_league_name,   \* name of league 17 in the configuration
    sp_season_name,   \* get_season_name(17, 9)
    sp_pc,            \* "idle" | "start" | "saved"
    sp_disk,          \* the paths that exist under data/matches
    sp_ret,           \* what fetch_matches_for_season did
    sp_has_matches    \* season["has_matches"] of get_current_season_id

sp_vars == <<sp_league_name, sp_season_name, sp_pc, sp_disk, sp_ret, sp_has_matches>>

\* str.replace(old, new)
Replace(s, old, new) == [i \in DOMAIN s |-> IF s[i] = old THEN new ELSE s[i]]

\* os.path.join(data_dir, "matches", f"{league_id}_{league_name.replace(' ', '_')}",
\*              f"{season_id}_{season_part}{tail}"), as a string
SeasonPath(league_name, season_part, tail) ==
    <<"data/matches/17_">> \o Replace(league_name, " ", "_") \o <<"/", "9_">>
        \o season_part \o tail

\* a fetch of the season that got events: _save_match_data made the season
\* directory for its round files, _save_season_summary wrote the two summaries
_save_season_summary ==
    /\ sp_pc = "start"
    /\ sp_pc' = "saved"
    /\ LET season_name_safe == Replace(Replace(sp_season_name, " ", "_"), "/", "_")
       IN sp_disk' = { SeasonPath(sp_league_name, season_name_safe, <<>>),
                       SeasonPath(sp_league_name, season_name_safe, <<"_summary.json">>),
                       SeasonPath(sp_league_name, season_name_safe, <<"_summary.csv">>) }
    /\ UNCHANGED <<sp_league_name, sp_season_name, sp_ret, sp_has_matches>>

\* the following call for the same season: True from the summaries on disk,
\* or on to fetch_all_matches_for_season (no file of the season directory
\* starts with f"{season_id}_", so no summary is rebuilt from round files)
fetch_matches_for_season ==
    /\ sp_pc = "saved"
    /\ sp_ret = "pending"
    /\ LET season_part == Replace(sp_season_name, " ", "_")
       IN sp_ret' = IF /\ SeasonPath(sp_league_name, season_part, <<>>) \in sp_disk
                       /\ SeasonPath(sp_league_name, season_part, <<"_summary.json">>) \in sp_disk
                       /\ SeasonPath(sp_league_name, season_part, <<"_summary.csv">>) \in sp_disk
                    THEN "from_disk"
                    ELSE "network"
    /\ UNCHANGED <<sp_league_name, sp_season_name, sp_pc, sp_disk, sp_has_matches>>

\* has_matches of get_current_season_id: match_count > 0 or the summary JSON
\* exists (the glob {season_id}_{name}_round_*.json in the league directory
\* matches none of the files written, which are round_{n}*.json in the season
\* directory)
season_has_matches ==
    /\ sp_pc = "saved"
    /\ sp_has_matches = "pending"
    /\ LET season_part == Replace(sp_season_name, " ", "_")
       IN sp_has_matches' =
             IF SeasonPath(sp_league_name, season_part, <<"_summary.json">>) \in sp_disk
             THEN "yes" ELSE "no"
    /\ UNCHANGED <<sp_league_name, sp_season_name, sp_pc, sp_disk, sp_ret>>

SpIdle ==
    /\ sp_league_name = <<>>
    /\ sp_season_name = <<>>
    /\ sp_pc = "idle"
    /\ sp_disk = {}
    /\ sp_ret = "pending"
    /\ sp_has_matches = "pending"

SpInit ==
    /\ sp_league_name \in Names
    /\ sp_season_name \in Names
    /\ sp_pc = "start"
    /\ sp_disk = {}
    /\ sp_ret = "pending"
    /\ sp_has_matches = "pending"

SpNext ==
    \/ _save_season_summary
    \/ fetch_matches_for_season
    \/ season_has_matches

\* ========================================================================
\* Order of two-digit seasons: the sort of get_current_season_id over seasons
\* whose "year" is written "yy/zz"
\* ========================================================================
\* first years of the seasons 1950/51 .. 2048/49
SeasonStarts == 1950..2048

VARIABLES
    so_starts,   \* first years of the seasons, in the order of the seasons file
    so_pc,       \* "idle" | "call" | "sorted"
    so_keys,     \* _get_sortable_year_value of each season of the file
    so_sorted    \* sorted_seasons, as positions of the file

so_vars == <<so_starts, so_pc, so_keys, so_sorted>>

\* "year" of the season that starts in `start`: f"{start % 100:02d}/{(start + 1) % 100:02d}"
TwoDigitYear(start) ==
    [fmt |-> "yy/zz", start |-> start % 100, end |-> (start + 1) % 100, name |-> 0]

\* sorted(seasons, key=lambda s: self._get_sortable_year_value(s.get("year", "0")), reverse=True)
sort_seasons ==
    /\ so_pc = "call"
    /\ so_pc' = "sorted"
    /\ LET seasons == [i \in DOMAIN so_starts |-> [year |-> TwoDigitYear(so_starts[i])]]
       IN /\ so_keys' = [i \in DOMAIN so_starts |-> SortableYearValue(seasons[i].year)]
          /\ so_sorted' = SortedSeasons(seasons)
    /\ UNCHANGED so_starts

SoIdle ==
    /\ so_starts = <<>>
    /\ so_pc = "idle"
    /\ so_keys = <<>>
    /\ so_sorted = <<>>

SoInit ==
    /\ so_starts \in { <<a, b>> : a \in SeasonStarts, b \in SeasonStarts }
    /\ so_starts[1] # so_starts[2]
    /\ so_pc = "call"
    /\ so_keys = <<>>
    /\ so_sorted = <<>>

SoNext == sort_seasons

\* ========================================================================
\* CSV data set of every stored match: MatchDataFetcher.create_csv_dataset
\* with match_ids=None
\* ========================================================================
\* largest number of match directories under match_details
MaxStoredMatches == 3

StoredMatches == 1..MaxStoredMatches

VARIABLES
    cd_layout,   \* where the directory of match m is: "none" | "nested" | "legacy"
    cd_full,     \* full_data.json of match m: "absent" | "ok" | "corrupt"
    cd_pc,       \* "idle" | "call" | "done"
    cd_infos,    \* number of entries of match_infos for match m
    cd_rows      \* number of rows of the CSV for match m

cd_vars == <<cd_layout, cd_full, cd_pc, cd_infos, cd_rows>>

\* the scan of the top-level directories: a directory with full_data.json is
\* taken as a match of the old structure, any other as a league whose season
\* directories are searched for match directories with full_data.json
LeagueScanEntries(layout, full) ==
    IF layout \in {"legacy", "nested"} /\ full # "absent" THEN 1 ELSE 0

\* "Also check for matches directly under match_details (old structure)"
DirectScanEntries(layout, full) ==
    IF layout = "legacy" /\ full # "absent" THEN 1 ELSE 0

\* process_match_for_csv: None when full_data.json cannot be loaded
ProcessedRows(entries, full) == IF full = "ok" THEN entries ELSE 0

create_csv_dataset ==
    /\ cd_pc = "call"
    /\ cd_pc' = "done"
    /\ cd_infos' = [m \in StoredMatches |->
                       LeagueScanEntries(cd_layout[m], cd_full[m])
                       + DirectScanEntries(cd_layout[m], cd_full[m])]
    /\ cd_rows' = [m \in StoredMatches |-> ProcessedRows(cd_infos'[m], cd_full[m])]
    /\ UNCHANGED <<cd_layout, cd_full>>

CdIdle ==
    /\ cd_layout = [m \in StoredMatches |-> "none"]
    /\ cd_full = [m \in StoredMatches |-> "absent"]
    /\ cd_pc = "idle"
    /\ cd_infos = [m \in StoredMatches |-> 0]
    /\ cd_rows = [m \in StoredMatches |-> 0]

CdInit ==
    /\ cd_layout \in [StoredMatches -> {"none", "nested", "legacy"}]
    /\ cd_full \in [StoredMatches -> {"absent", "ok", "corrupt"}]
    /\ \A m \in StoredMatches : cd_layout[m] = "none" => cd_full[m] = "absent"
    /\ cd_pc = "call"
    /\ cd_infos = [m \in StoredMatches |-> 0]
    /\ cd_rows = [m \in StoredMatches |-> 0]

CdNext == create_csv_dataset

\* ========================================================================
\* Files of one match directory: MatchDataFetcher._save_match_data
\* ========================================================================
\* the files in the order they are written: full_data.json, then {key}.json
\* for the keys of match_data in the order they were set
SaveOrder == <<"full_data", "basic", "statistics", "team_streaks", "pregame_form", "h2h">>

VARIABLES
    sv_data,    \* the keys of match_data whose value is not None
    sv_fail,    \* the write that raises: its position in SaveOrder (0: none) and how
    sv_pc,      \* "idle" | "call" | "returned"
    sv_files    \* the files of the match directory: "absent" | "ok" | "partial"

sv_vars == <<sv_data, sv_fail, sv_pc, sv_files>>

\* the positions of SaveOrder that are opened for writing: full_data.json and
\* every key with `data is not None`
SaveWrites(data) == {1} \cup { s \in 2..Len(SaveOrder) : SaveOrder[s] \in data }

\* the file of position s once the function has returned: an exception ends
\* the function, so nothing after the failing write is written
SavedFile(s, data, fail) ==
    IF s \notin SaveWrites(data) THEN "absent"
    ELSE IF fail.step = 0 \/ s < fail.step THEN "ok"
    ELSE IF s = fail.step /\ fail.how = "write_failed" THEN "partial"
    ELSE "absent"

\* the whole function: every exception is caught and logged
_save_match_data ==
    /\ sv_pc = "call"
    /\ sv_pc' = "returned"
    /\ sv_files' = [s \in 1..Len(SaveOrder) |-> SavedFile(s, sv_data, sv_fail)]
    /\ UNCHANGED <<sv_data, sv_fail>>

SvIdle ==
    /\ sv_data = {}
    /\ sv_fail = [step |-> 0, how |-> "ok"]
    /\ sv_pc = "idle"
    /\ sv_files = [s \in 1..Len(SaveOrder) |-> "absent"]

\* a match whose directory does not exist yet; "basic" is always there
SvInit ==
    /\ sv_data \in { {"basic"} \cup d : d \in SUBSET SubKeys }
    /\ \/ sv_fail = [step |-> 0, how |-> "ok"]
       \/ /\ sv_fail \in [step : 1..Len(SaveOrder), how : {"open_failed", "write_failed"}]
          /\ sv_fail.step \in SaveWrites(sv_data)
    /\ sv_pc = "call"
    /\ sv_files = [s \in 1..Len(SaveOrder) |-> "absent"]

SvNext == _save_match_data

\* ========================================================================
\* Rounds inferred from match dates: MatchFetcher._infer_rounds_from_dates
\* ========================================================================
\* longest list of matches, and the number of calendar days they spread over
MaxInferMatches == 3
MaxDay == 6

\* a match: the day of its startTimestamp and its roundInfo.round (0: none)
InferMatches == [day : 1..MaxDay, round : {0, 7}]

VARIABLES
    ir_matches,        \* the `matches` argument
    ir_pc,             \* "idle" | "call" | "returned"
    ir_date_to_round,  \* date_to_round
    ir_rounds          \* roundInfo.round of each match at return

ir_vars == <<ir_matches, ir_pc, ir_date_to_round, ir_rounds>>

\* sorted(date_groups.keys())
SortedDates(days) ==
    [p \in 1..Cardinality(days) |->
        CHOOSE d \in days : Cardinality({ e \in days : e < d }) = p - 1]

\* the loop over sorted_dates after its first k dates: current_round,
\* current_group_start and date_to_round
RECURSIVE DateLoop(_, _)
DateLoop(sorted_dates, k) ==
    IF k = 0
    THEN [current_round |-> 1, current_group_start |-> 0, date_to_round |-> << >>]
    ELSE LET before == DateLoop(sorted_dates, k - 1)
             date == sorted_dates[k]
             days_diff == date - before.current_group_start
             opens == before.current_group_start # 0 /\ days_diff > 3
             round == IF opens THEN before.current_round + 1 ELSE before.current_round
         IN [current_round |-> round,
             current_group_start |-> IF before.current_group_start = 0 \/ opens
                                     THEN date ELSE before.current_group_start,
             date_to_round |-> before.date_to_round @@ (date :> round)]

_infer_rounds_from_dates ==
    /\ ir_pc = "call"
    /\ ir_pc' = "returned"
    /\ LET days == { ir_matches[i].day : i \in DOMAIN ir_matches }
           sorted_dates == SortedDates(days)
           date_to_round == DateLoop(sorted_dates, Len(sorted_dates)).date_to_round
       IN /\ ir_date_to_round' = date_to_round
          \* `if not match.get("roundInfo", {}).get("round")`
          /\ ir_rounds' = [i \in DOMAIN ir_matches |->
                              IF ir_matches[i].round = 0
                              THEN date_to_round[ir_matches[i].day]
                              ELSE ir_matches[i].round]
    /\ UNCHANGED ir_matches

IrIdle ==
    /\ ir_matches = <<>>
    /\ ir_pc = "idle"
    /\ ir_date_to_round = << >>
    /\ ir_rounds = <<>>

IrInit ==
    /\ ir_matches \in UNION { [1..n -> InferMatches] : n \in 1..MaxInferMatches }
    /\ ir_pc = "call"
    /\ ir_date_to_round = << >>
    /\ ir_rounds = <<>>

IrNext == _infer_rounds_from_dates

\* ========================================================================
\* One match by either path: MatchDataFetcher.fetch_match_data (blocking) and
\* MatchDataFetcher._fetch_match_data_async, for the same answers of the API
\* ========================================================================
\* status of the event of GET /event/{id}; code 0 also stands for a status
\* without "code"
EventStatuses == [code : {0, 100}, description : {"Ended", "AET"},
                  type : {"finished", "notstarted"}]
NoEvent == [code |-> 0, description |-> "", type |-> ""]

VARIABLES
    eq_basic,   \* what GET /event/{id} meets, at every attempt
    eq_event,   \* status of data["event"] of a 200 answer (NoEvent: no event)
    eq_subs,    \* what each sub-resource request meets, at every attempt
    eq_ran,     \* the paths that have run: "blocking", "async"
    eq_sync,    \* full_data.json fetch_match_data wrote
    eq_async    \* full_data.json _fetch_match_data_async wrote

eq_vars == <<eq_basic, eq_event, eq_subs, eq_ran, eq_sync, eq_async>>

NotPersisted == [persisted |-> FALSE, data |-> {}]

\* make_api_request behind the try/except of a _fetch_* method: the JSON, or
\* None once the last attempt has raised
BlockingJson(resp) == \A attempt \in 0..(MAX_RETRIES - 1) :
                          RaisedInTry(resp, attempt, MAX_RETRIES) = "none"

\* `async with session.get(url) as response: if response.status == 200:
\* ... await response.json()`
AsyncJson(resp) == StatusOf(resp) = 200 /\ resp # "badjson200"

\* the two tests of fetch_match_data that let a match through
BlockingAccepts(status) ==
    /\ ~(status.code = 0 \/ status.type = "scheduled" \/ status.type = "notstarted")
    /\ ~(status.description # "Ended" \/ status.type # "finished")

fetch_match_data ==
    /\ "blocking" \notin eq_ran
    /\ eq_ran' = eq_ran \cup {"blocking"}
    /\ eq_sync' = IF BlockingJson(eq_basic) /\ eq_event # NoEvent /\ BlockingAccepts(eq_event)
                  THEN [persisted |-> TRUE,
                        data |-> { k \in SubKeys : BlockingJson(eq_subs[k]) }]
                  ELSE NotPersisted
    /\ UNCHANGED <<eq_basic, eq_event, eq_subs, eq_async>>

_fetch_match_data_async ==
    /\ "async" \notin eq_ran
    /\ eq_ran' = eq_ran \cup {"async"}
    /\ eq_async' = IF /\ AsyncJson(eq_basic)
                      /\ eq_event # NoEvent
                      /\ MatchIsFinished(<<eq_event.description, eq_event.type>>)
                   THEN [persisted |-> TRUE,
                         data |-> { k \in SubKeys : AsyncJson(eq_subs[k]) }]
                   ELSE NotPersisted
    /\ UNCHANGED <<eq_basic, eq_event, eq_subs, eq_sync>>

EqIdle ==
    /\ eq_basic = "ok200"
    /\ eq_event = NoEvent
    /\ eq_subs = [k \in SubKeys |-> "ok200"]
    /\ eq_ran = {"blocking", "async"}
    /\ eq_sync = NotPersisted
    /\ eq_async = NotPersisted

EqInit ==
    /\ eq_basic \in {"ok200", "badjson200", "s429", "s404", "neterr"}
    /\ eq_event \in EventStatuses \cup {NoEvent}
    /\ eq_basic # "ok200" => eq_event = NoEvent
    /\ eq_subs \in [SubKeys -> {"ok200", "s404"}]
    /\ eq_ran = {}
    /\ eq_sync = NotPersisted
    /\ eq_async = NotPersisted

EqNext ==
    \/ fetch_match_data
    \/ _fetch_match_data_async

\* ---------------------------------------------------------------------
\* ConfigManager.add_league / remove_league (config_manager.py)
\* ---------------------------------------------------------------------
MaxLeagueId == 2
MaxLeagueCalls == 3
LeagueIds == 1..MaxLeagueId
LeagueNames == {"A", "B"}

VARIABLES
    cm_file,      \* league lines <<name, id>> of league_config_path
    cm_leagues,   \* self.leagues: id -> name
    cm_by_name,   \* self.leagues_by_name: name -> id
    cm_config,    \* self.config["leagues"]: id -> name
    cm_ret,       \* what the last call returned ("none": no call yet)
    cm_calls      \* calls made so far

cm_vars == <<cm_file, cm_leagues, cm_by_name, cm_config, cm_ret, cm_calls>>

NoLeagues == [x \in {} |-> 0]

\* d[k] = v
DictSet(d, k, v) == [x \in DOMAIN d \cup {k} |-> IF x = k THEN v ELSE d[x]]

\* del d[k]
DictDel(d, k) == [x \in DOMAIN d \ {k} |-> d[x]]

\* the dictionaries _load_leagues_from_text fills from the lines of the file
LoadedLeagues(lines) ==
    [i \in { l[2] : l \in lines } |-> (CHOOSE l \in lines : l[2] = i)[1]]

LoadedByName(lines) ==
    [n \in { l[1] : l \in lines } |-> (CHOOSE l \in lines : l[1] = n)[2]]

\* write_ok: whether the league file can be opened for writing
add_league(league_name, league_id, write_ok) ==
    /\ cm_calls < MaxLeagueCalls
    /\ cm_calls' = cm_calls + 1
    /\ IF league_id \in DOMAIN cm_leagues \/ league_name \in DOMAIN cm_by_name
       THEN /\ cm_ret' = "False"
            /\ UNCHANGED <<cm_file, cm_leagues, cm_by_name, cm_config>>
       ELSE /\ cm_leagues' = DictSet(cm_leagues, league_id, league_name)
            /\ cm_by_name' = DictSet(cm_by_name, league_name, league_id)
            /\ IF write_ok
               THEN /\ cm_file' = cm_file \cup {<<league_name, league_id>>}
                    /\ cm_config' = DictSet(cm_config, league_id, league_name)
                    /\ cm_ret' = "True"
               ELSE \* ConfigError, caught by the outer except
                    /\ cm_ret' = "False"
                    /\ UNCHANGED <<cm_file, cm_config>>

\* text_ok: whether the league file can be read and written again
remove_league(league_id, text_ok) ==
    /\ cm_calls < MaxLeagueCalls
    /\ cm_calls' = cm_calls + 1
    /\ IF league_id \notin DOMAIN cm_leagues
       THEN /\ cm_ret' = "False"
            /\ UNCHANGED <<cm_file, cm_leagues, cm_by_name, cm_config>>
       ELSE IF ~text_ok
       THEN /\ cm_ret' = "False"
            /\ UNCHANGED <<cm_file, cm_leagues, cm_by_name, cm_config>>
       ELSE /\ cm_file' = { l \in cm_file : l[2] # league_id }
            /\ cm_config' = DictDel(cm_config, league_id)
            /\ IF cm_leagues[league_id] \in DOMAIN cm_by_name
               THEN /\ cm_by_name' = DictDel(cm_by_name, cm_leagues[league_id])
                    /\ cm_leagues' = DictDel(cm_leagues, league_id)
                    /\ cm_ret' = "True"
               ELSE \* KeyError, caught by the outer except
                    /\ cm_ret' = "False"
                    /\ UNCHANGED <<cm_leagues, cm_by_name>>

CmIdle ==
    /\ cm_file = {}
    /\ cm_leagues = NoLeagues
    /\ cm_by_name = NoLeagues
    /\ cm_config = NoLeagues
    /\ cm_ret = "none"
    /\ cm_calls = MaxLeagueCalls

\* a league file whose lines have distinct ids and distinct names, and a
\* JSON configuration without a "leagues" section
CmInit ==
    /\ cm_file \in SUBSET (LeagueNames \X LeagueIds)
    /\ \A l, m \in cm_file : (l[1] = m[1] \/ l[2] = m[2]) => l = m
    /\ cm_leagues = LoadedLeagues(cm_file)
    /\ cm_by_name = LoadedByName(cm_file)
    /\ cm_config = NoLeagues
    /\ cm_ret = "none"
    /\ cm_calls = 0

CmNext ==
    \/ \E n \in LeagueNames, i \in LeagueIds, ok \in BOOLEAN : add_league(n, i, ok)
    \/ \E i \in LeagueIds, ok \in BOOLEAN : remove_league(i, ok)

vars == <<rq_vars, f_vars, rd_vars, md_vars, sf_vars, cs_vars, yv_vars, fs_vars, gs_vars, cw_vars, ad_vars, sp_vars, so_vars, cd_vars, sv_vars, ir_vars, eq_vars, cm_vars>>

\* ------------------------------------------------------------------------
\* Properties of the batch fetchers
\* ------------------------------------------------------------------------
\* C1 (as claimed): a second call for a match ID that an earlier call
\* persisted under match_details/{league}/{season}/{match_id}/full_data.json
\* sends no HTTP request for that ID and leaves its directory as it was.
C1_SecondCallIdempotent ==
    md_call >= 2 =>
        \A id \in MatchIds :
            md_snapshot[id].full = "ok" =>
                /\ id \notin md_http
                /\ md_disk[id] = md_snapshot[id]

\* C2: during fetch_matches_batch_async with max_concurrent = M the number of
\* upstream requests that are open at the same time (basic and sub-resource
\* requests of all matches in flight) is at most M.
C2_OpenRequestsBounded ==
    Cardinality({ i \in Tasks : md_pc[i] \in {"basic_open", "rl_sleep"} })
    + Cardinality({ ik \in Tasks \X SubKeys : md_sub[ik[1]][ik[2]] = "open" })
        <= md_max_concurrent

\* two matches in flight with M = 2: both connections are taken by
\* sub-fetches while further sub-fetches of both matches wait
C2_Witness ==
    /\ md_max_concurrent = 2
    /\ md_pc[1] = "subs" /\ md_pc[2] = "subs"
    /\ OpenRequests = 2
    /\ \E k \in SubKeys : md_sub[1][k] = "wait"
    /\ \E k \in SubKeys : md_sub[2][k] = "wait"

\* C3 (as claimed): during the round batch of one season the number of round
\* requests in flight at the same time never exceeds MAX_CONCURRENT.
C3_RoundsInFlightBounded == RoundsInFlight <= rd_semaphore_limit

\* C15: when the basic fetch of a finished match succeeded, whatever subset of
\* the four sub-fetches failed, the match is returned as fetched and ends up in
\* the returned map; unless the write itself fails, full_data.json then holds
\* the fetched value of every successful sub-resource and null for every
\* failed one; no {sub}.json is written for a failed sub-resource.
C15_PartialSubsPersisted ==
    [][/\ \A i \in Tasks :
             (md_pc[i] = "subs" /\ md_pc'[i] = "done") =>
                LET fetched == { k \in SubKeys : md_sub[i][k] = "ok" }
                    old == md_disk[IdOf(i)]
                    new == md_disk'[IdOf(i)]
                IN /\ md_result'[i] = "data"
                   /\ (new.files \ old.files) \cap (SubKeys \ fetched) = {}
                   /\ \/ /\ new.full = "ok"
                         /\ new.data = fetched
                         /\ (fetched \cup {"basic"}) \subseteq new.files
                      \/ new = old
                      \/ new.full = "corrupt" /\ new.files = old.files
       /\ md_phase' = "returned" =>
             \A i \in 1..Len(md_match_ids) :
                 md_result'[i] = "data" => IdOf(i) \in md_results']_vars

\* a match saved with some, but not all, of its sub-resources fetched
C15_Witness ==
    \E i \in 1..Len(md_match_ids) :
        /\ md_pc[i] = "done"
        /\ md_result[i] = "data"
        /\ md_disk[IdOf(i)].full = "ok"
        /\ md_disk[IdOf(i)].data \notin {{}, SubKeys}
        /\ md_disk[IdOf(i)].files = md_disk[IdOf(i)].data \cup {"basic"}
        /\ md_phase = "returned"
        /\ IdOf(i) \in md_results

\* C16: a match whose basic payload is missing, or whose status is not
\* description "Ended" with type "finished", gets no sub-resource request,
\* nothing of it is written to disk, and it is not in the returned map.
C16_UnfinishedAbandoned ==
    \A i \in 1..Len(md_match_ids) :
        md_basic[i] \in {"missing", "not_ended"} =>
            /\ md_pc[i] = "done"
            /\ md_result[i] = "None"
            /\ md_sub[i] = NoSubs
            /\ md_disk[IdOf(i)] = md_snapshot[IdOf(i)]
            /\ IdOf(i) \notin md_results

\* a call that returned after one match came without an event and another
\* with an event that is not over
C16_Witness ==
    /\ md_phase = "returned"
    /\ \E i, j \in 1..Len(md_match_ids) :
          md_basic[i] = "missing" /\ md_basic[j] = "not_ended"

\* C17: a match ID is attempted at most 3 times in one call; a further attempt
\* is made only after the attempt before it (attempt j, counted from 0) raised
\* and after a backoff sleep of 1*2^j seconds plus a jitter in [0,1); when the
\* third attempt is over the task is done, with None if it failed, and a task
\* that is done is not attempted again in this call.
C17_ThreeAttemptsWithBackoff ==
    [][\A i \in Tasks :
          /\ md_attempt[i] < 3
          /\ md_attempt'[i] > md_attempt[i] =>
                /\ md_attempt'[i] = md_attempt[i] + 1
                /\ md_pc[i] = "backoff"
                /\ md_pc'[i] = "acquire"
          /\ (md_pc'[i] = "backoff" /\ md_pc[i] # "backoff") =>
                /\ md_pc[i] \in {"acquire", "basic_wait", "basic_open", "rl_sleep"}
                /\ md_attempt[i] < 2
                /\ md_wait'[i].base = 2 ^ md_attempt[i]
                /\ md_wait'[i].jitter \in 0..(JitterResolution - 1)
          /\ (/\ md_attempt[i] = 2
              /\ md_pc[i] \in {"acquire", "basic_wait", "basic_open", "rl_sleep"}
              /\ md_pc'[i] \notin {"acquire", "basic_wait", "basic_open", "rl_sleep", "subs"}) =>
                (md_pc'[i] = "done" /\ md_result'[i] = "None")
          /\ (md_pc[i] = "done" /\ md_call' = md_call) =>
                (md_pc'[i] = "done" /\ md_result'[i] = md_result[i])]_vars

\* one task is done with None after its third attempt (attempt 2) raised,
\* another one sleeps the 2 s backoff before its third attempt
C17_Witness ==
    \E i, j \in 1..Len(md_match_ids) :
        /\ md_pc[i] = "done"
        /\ md_result[i] = "None"
        /\ md_attempt[i] = 2
        /\ IdOf(i) \in md_http
        /\ md_pc[j] = "backoff"
        /\ md_attempt[j] = 1
        /\ md_wait[j].base = 2

\* a two-digit start year as the century rule reads it: 20yy below 50, 19yy
\* from 50 on; every other year as the classification loop reads it
CenturyRuleYear(y) ==
    IF y.fmt = "yy/zz"
    THEN IF y.start < 50 THEN 2000 + y.start ELSE 1900 + y.start
    ELSE SeasonYear(y)

\* the list of each season under the century rule
CenturyRuleClass ==
    [i \in DOMAIN cs_seasons |->
        SeasonClass(CenturyRuleYear(cs_seasons[i].year), IndexIn(cs_sorted, i), cs_now)]

\* C19 (as claimed): get_current_season_id returns the most recent active
\* season with persisted match files, else the most recent past season with
\* persisted match files, else the most recent active season, else the most
\* recent season overall; a future season is returned only by the last
\* rule. Active, past and future are what the classification of a season's
\* year is stated to be (a two-digit year below 50 in the 2000s, from 50 on
\* in the 1900s).
C19_PreferenceOrder ==
    (cs_pc = "returned" /\ cs_seasons # <<>>) =>
        cs_ret = SelectedSeason(cs_sorted, CenturyRuleClass, cs_seasons)

\* C20 (as claimed): the classification reads the two-digit start year yy of
\* a 'yy/zz' season as 20yy when yy < 50 and as 19yy when yy >= 50, so a
\* '98/99' season is past and never future.
C20_TwoDigitCentury ==
    cs_pc = "returned" =>
        \A i \in DOMAIN cs_seasons :
            cs_seasons[i].year.fmt = "yy/zz" => cs_class[i] = CenturyRuleClass[i]

\* C21 (as claimed): _get_sortable_year_value never raises; for an input that
\* is no year (empty, not a number, or with a part before the '/' that is
\* not a number, of any length) it returns 0.0.
C21_NeverRaises ==
    yv_pc = "left" =>
        /\ yv_out.kind = "return"
        /\ LET noYear == \/ yv_year_str = <<>>
                         \/ ~HasSlash(yv_year_str) /\ ~IsNumber(yv_year_str)
                         \/ HasSlash(yv_year_str) /\ ~IsNumber(StartPart(yv_year_str))
           IN noYear => yv_out.value = 0

\* C22: fetch_all_matches_for_season terminates: it returns in the end, each
\* call either returns or calls itself with retry_count one higher, and
\* retry_count never exceeds 2. A season that gave no round results and is judged future or
\* unstarted is followed by the next season in descending order of the sort
\* key (when the file has one), and nothing else changes the season.
C22_FallbackBounded ==
    /\ [](fs_retry_count <= 2)
    /\ <>(fs_pc = "returned")
    /\ [][ fs_pc' = "returned" \/ fs_retry_count' = fs_retry_count + 1 ]_vars
    /\ [][ LET sorted == FallbackSorted(fs_seasons)
               future == IsFutureSeason(FallbackSeasonYear(fs_seasons, fs_season_id), fs_now)
               next   == \E k \in 1..(Len(sorted) - 1) :
                             sorted[k] = fs_season_id /\ sorted[k + 1] = fs_season_id'
           IN /\ fs_season_id' # fs_season_id =>
                    /\ fs_results' = "empty" /\ future /\ next
                    /\ fs_retry_count' = fs_retry_count + 1
              /\ (fs_results' = "empty" /\ fs_fetched' # fs_fetched /\ future
                     /\ \E k \in 1..(Len(sorted) - 1) : sorted[k] = fs_season_id) =>
                    (next /\ fs_pc' = "call") ]_vars

\* two seasons were fetched one after the other and the third call gave up
C22_Witness ==
    /\ fs_pc = "returned"
    /\ fs_retry_count = 2
    /\ Len(fs_fetched) = 2
    /\ fs_fetched[1] # fs_fetched[2]

\* C23 (as claimed): a match whose files could not be written by
\* _save_match_data is reported as failed and is not among the successes the
\* batch returns. (A task that returned its data without a readable
\* full_data.json on disk is one whose write failed.)
C23_FailedWriteNotCounted ==
    md_phase = "returned" =>
        \A i \in 1..Len(md_match_ids) :
            (md_result[i] = "data" /\ md_disk[IdOf(i)].full # "ok") =>
                IdOf(i) \notin md_results

\* C24 (as claimed): fetch_summary.csv is appended across runs: when a later
\* run of fetch_all_leagues_current_season has written its rows, the rows an
\* earlier run wrote are still in the file.
C24_SummaryAppended ==
    [][ (gs_csv # "absent" /\ gs_csv' # gs_csv) =>
            \A p \in DOMAIN gs_csv : \E q \in DOMAIN gs_csv' : gs_csv'[q] = gs_csv[p] ]_vars

\* _save_season_summary(league_id, season_id, results): the summary JSON is
\* the dump of `results` as it is, the summary CSV has the rows of the events
\* round by round in the order of `results`; both as the rounds they list
SeasonSummary(results) == [json |-> results, csv |-> results]

\* C25 (as claimed): the per-season summary is the same for every completion
\* order of the round fetches: its rounds are listed by round number,
\* whichever task finished first.
C25_SummaryOrderIndependent ==
    rd_batch = "returned" =>
        LET summary == SeasonSummary(rd_results)
        IN /\ \A p, q \in DOMAIN summary.json : p < q => summary.json[p] < summary.json[q]
           /\ \A p, q \in DOMAIN summary.csv : p < q => summary.csv[p] < summary.csv[q]

\* C26 (as claimed): no two tasks of one batch write to the same path: for
\* every list of match IDs, two match tasks of a batch write disjoint sets of
\* files (two round tasks always do: round n writes round_{n}.json only).
C26_DisjointWrites ==
    \A i, j \in 1..Len(md_match_ids) :
        (i # j /\ \E b \in 0..(NumBatches(md_to_process) - 1) :
                      {i, j} \subseteq BatchOf(md_to_process, b)) =>
            TaskWrites(i) \cap TaskWrites(j) = {}

\* position of a column in a list of columns, 0 when it is not in it
ColumnIndex(cols, col) ==
    IF \E p \in DOMAIN cols : cols[p] = col
    THEN CHOOSE p \in DOMAIN cols : cols[p] = col
    ELSE 0

\* C27: the header _write_matches_to_csv writes has every key of the matches
\* once: first the priority columns that occur, in priority order, then the
\* other keys in alphabetical order; every data row has one cell per header
\* column, empty exactly where the match lacks the key.
C27_CsvColumns ==
    (cw_pc = "returned" /\ cw_ret) =>
        /\ KeySet(cw_header) = UNION { cw_matches[r] : r \in DOMAIN cw_matches }
        /\ \A p, q \in DOMAIN cw_header :
              p < q =>
                 /\ cw_header[p] # cw_header[q]
                 /\ IF ColumnIndex(PriorityColumns, cw_header[p]) # 0
                    THEN ColumnIndex(PriorityColumns, cw_header[q]) # 0 =>
                            ColumnIndex(PriorityColumns, cw_header[p])
                              < ColumnIndex(PriorityColumns, cw_header[q])
                    ELSE /\ ColumnIndex(PriorityColumns, cw_header[q]) = 0
                         /\ ColumnIndex(CsvKeys, cw_header[p]) < ColumnIndex(CsvKeys, cw_header[q])
        /\ Len(cw_rows) = Len(cw_matches)
        /\ \A r \in DOMAIN cw_rows :
              /\ Len(cw_rows[r]) = Len(cw_header)
              /\ \A c \in DOMAIN cw_header :
                    cw_rows[r][c] = "" <=> cw_header[c] \notin cw_matches[r]

\* two matches, one with home_possession and one without, written with a
\* header that has priority columns out of alphabetical order
C27_Witness ==
    /\ cw_pc = "returned"
    /\ cw_ret
    /\ Len(cw_matches) = 2
    /\ "home_possession" \in cw_matches[1]
    /\ "home_possession" \notin cw_matches[2]
    /\ {"match_id", "match_date", "round"} \subseteq cw_matches[2]
    /\ cw_rows[2][ColumnIndex(cw_header, "home_possession")] = ""
    /\ cw_rows[1][ColumnIndex(cw_header, "home_possession")] # ""

\* C28 (as claimed): fetch_all_match_details(league_id, max_seasons = N) with
\* N > 0 processes only match IDs of the N most recent season directories of
\* the league; with N = 0 those of all seasons.
C28_OnlyRecentSeasons ==
    ad_pc = "returned" =>
        IF ad_max_seasons > 0
        THEN \A s \in ad_to_process :
                /\ s \in ad_season_dirs
                /\ Cardinality({ t \in ad_season_dirs : t > s }) < ad_max_seasons
        ELSE ad_to_process = (ad_summaries \cup ad_season_csvs) \ ad_existing

\* C29: the IDs left by the pre-filter are processed in input order in
\* consecutive batches of at most batch_size; a task of a batch is started
\* only when every task of the batches before it is done; a pause is taken
\* after every batch but the last.
C29_BatchesInSequence ==
    /\ [](\A p, q \in DOMAIN md_to_process :
             /\ p < q => md_to_process[p] < md_to_process[q]
             /\ (md_pc[md_to_process[q]] # "queued"
                   /\ (p - 1) \div BatchSize < (q - 1) \div BatchSize) =>
                    md_pc[md_to_process[p]] = "done")
    /\ [](Cardinality({ i \in Tasks : md_pc[i] \notin {"none", "skipped", "queued", "done"} })
             <= BatchSize)
    /\ [][ md_phase = "running" =>
              /\ md_batch_idx' = md_batch_idx + 1 => md_pauses' = md_pauses + 1
              /\ md_phase' = "returned" =>
                    /\ md_pauses' = md_pauses
                    /\ md_pauses' = (Len(md_to_process) + BatchSize - 1) \div BatchSize - 1 ]_vars

\* a call of two batches has returned after one pause
C29_Witness ==
    /\ md_phase = "returned"
    /\ Len(md_to_process) > BatchSize
    /\ md_batch_idx = 1
    /\ md_pauses = 1
    /\ \A p \in DOMAIN md_to_process : md_pc[md_to_process[p]] = "done"

\* C30 (as claimed): the TCPConnector made before the batch loop is still
\* open while the second and every later batch runs, so the matches of later
\* batches can be fetched like those of the first.
C30_ConnectorOpenInLaterBatches ==
    (md_phase = "running" /\ md_batch_idx >= 1) => ~md_conn_closed

\* C31: fetch_matches_batch_async returns whenever every request is answered
\* or times out, and the progress count covers every position of match_ids
\* exactly once: at any moment it is the number of IDs the pre-filter skipped
\* plus the number of tasks that have returned (with data, with None for a
\* match that is not finished or not available, or with None after the last
\* retry), and at return it is len(match_ids)
C31_AllAccounted ==
    /\ [](md_phase # "idle" =>
            md_progress = Cardinality({ i \in 1..Len(md_match_ids) : md_pc[i] = "skipped" })
                          + Cardinality({ i \in 1..Len(md_match_ids) : md_pc[i] = "done" }))
    /\ [](md_phase = "returned" =>
            /\ md_progress = Len(md_match_ids)
            /\ \A i \in 1..Len(md_match_ids) :
                  \/ md_pc[i] = "skipped" /\ md_result[i] = "pending"
                  \/ md_pc[i] = "done" /\ md_result[i] \in {"data", "None"})
    /\ (md_phase = "running" ~> md_phase = "returned")

\* a call has returned after it skipped the first ID and gave the second up
\* after its last retry
C31_Witness ==
    /\ md_phase = "returned"
    /\ Len(md_match_ids) = 2
    /\ md_pc[1] = "skipped"
    /\ md_pc[2] = "done" /\ md_result[2] = "None" /\ md_attempt[2] = 2
    /\ md_progress = 2

\* C32: after a fetch of a season that wrote its summaries, a following
\* fetch_matches_for_season of the season returns True from the disk, without
\* a network call, and get_current_season_id sees the season as having match
\* files, for every league name and season name
C32_ResumableFromSummary ==
    /\ sp_ret \in {"pending", "from_disk"}
    /\ sp_has_matches \in {"pending", "yes"}

\* C33: with FETCH_ONLY_FINISHED no round file on disk (round_{n}.json,
\* round_{n}_full.json) holds an event that is not Ended/finished, and with
\* SAVE_EMPTY_ROUNDS off no round file without events is on disk, whatever
\* round fetches have run
C33_RoundFilePolicy ==
    /\ rd_only_finished =>
          \A n \in Rounds : {rd_file[n], rd_full[n]} \cap {"mixed", "unfinished"} = {}
    /\ ~rd_save_empty =>
          \A n \in Rounds : rd_file[n] # "empty" /\ rd_full[n] # "empty"

\* C34: of two different seasons written "yy/zz" between 1950/51 and 2048/49
\* the later one has the strictly greater sort key, and the descending sort
\* puts it first, whatever the order of the file
C34_TwoDigitOrder ==
    so_pc = "sorted" =>
        LET later == IF so_starts[1] > so_starts[2] THEN 1 ELSE 2
        IN /\ so_keys[later] > so_keys[3 - later]
           /\ so_sorted = <<later, 3 - later>>

\* C35: create_csv_dataset without match IDs gives one row to every match
\* directory that holds a readable full_data.json, in the nested layout and in
\* the flat one, no row to anything else, and no match two rows
C35_OneRowPerMatch ==
    cd_pc = "done" =>
        \A m \in StoredMatches :
            cd_rows[m] = IF cd_layout[m] # "none" /\ cd_full[m] = "ok" THEN 1 ELSE 0

\* C36: outside _save_match_data a match directory that holds a complete
\* full_data.json also holds the file {key}.json of every key of the match
\* data that is not None, also after a write of the save has failed
C36_MarkerImpliesSubFiles ==
    (sv_pc = "returned" /\ sv_files[1] = "ok") =>
        \A s \in 2..Len(SaveOrder) : SaveOrder[s] \in sv_data => sv_files[s] # "absent"

\* C37: the inferred rounds are 1, 2, 3, ... in date order; two consecutive
\* match dates are in different rounds exactly when they are more than 3 days
\* apart; a match without round metadata gets the round of its date and a
\* match with round metadata keeps its round
C37_RoundsByGap ==
    ir_pc = "returned" =>
        LET days == { ir_matches[i].day : i \in DOMAIN ir_matches }
            consecutive == { de \in days \X days :
                               /\ de[1] < de[2]
                               /\ ~\E x \in days : de[1] < x /\ x < de[2] }
            first == CHOOSE d \in days : \A e \in days : d <= e
        IN /\ ir_date_to_round[first] = 1
           /\ \A de \in consecutive :
                 /\ ir_date_to_round[de[2]] \in
                        {ir_date_to_round[de[1]], ir_date_to_round[de[1]] + 1}
                 /\ ir_date_to_round[de[2]] # ir_date_to_round[de[1]] <=> de[2] - de[1] > 3
           /\ \A i \in DOMAIN ir_matches :
                 ir_rounds[i] = IF ir_matches[i].round = 0
                                THEN ir_date_to_round[ir_matches[i].day]
                                ELSE ir_matches[i].round

\* C38: for the same answers of the API the blocking path and the async path
\* persist the same matches, with the same keys of full_data.json not None
C38_PathsAgree ==
    eq_ran = {"blocking", "async"} => eq_sync = eq_async

\* the two league maps are inverse of each other
MapsInverse ==
    /\ \A i \in DOMAIN cm_leagues :
           cm_leagues[i] \in DOMAIN cm_by_name /\ cm_by_name[cm_leagues[i]] = i
    /\ \A n \in DOMAIN cm_by_name :
           cm_by_name[n] \in DOMAIN cm_leagues /\ cm_leagues[cm_by_name[n]] = n

\* C39 (as claimed): a call of add_league or remove_league that returns
\* False leaves leagues and leagues_by_name as they were, and the two maps
\* stay inverse of each other after every call.  Violated: add_league puts
\* the league into both maps before it writes the league file, and a failed
\* write returns False with the league still in the maps.
C39_FalseLeavesMaps ==
    /\ []MapsInverse
    /\ [][cm_ret' = "False" =>
              (cm_leagues' = cm_leagues /\ cm_by_name' = cm_by_name)]_vars

AttemptedRounds == {n \in Rounds : rd_pc[n] # "none"}

\* file contents that hold at least one event
NonEmptyKinds == {"finished", "mixed", "unfinished"}

\* C11 (as claimed): after fetch_all_rounds_for_season, every round whose API
\* response held k >= 1 finished events has round_{n}_full.json with exactly
\* those events and round_{n}_matches.csv with a header and k rows.
C11_RoundFilesWritten ==
    rd_batch = "returned" =>
        \A n \in Rounds :
            (rd_branch[n] = "saved" /\ rd_only_finished) =>
                (rd_full[n] = "finished" /\ rd_csv[n] = "rows")

\* C12 (as claimed): a round whose round_{n}.json or round_{n}_full.json exists
\* with non-empty content is served from disk: its task ends without a
\* request, returns the data and leaves the files as they are.
C12_ServedFromDisk ==
    [][\A n \in Rounds :
          (/\ rd_pc[n] = "created"
           /\ rd_pc'[n] # "created"
           /\ (rd_file[n] \in NonEmptyKinds \/ rd_full[n] \in NonEmptyKinds))
          => (/\ rd_pc'[n] = "done"
              /\ rd_ret'[n] = "data"
              /\ rd_file'[n] = rd_file[n]
              /\ rd_full'[n] = rd_full[n])]_vars

\* C13 (as claimed): a local round_{n}.json that is empty or not valid JSON is
\* deleted and the round is requested again in the same run (a task that
\* raised because the deletion failed is not held against the claim).
C13_Original ==
    [][\A n \in Rounds :
          (/\ rd_pc[n] = "created"
           /\ rd_pc'[n] # "created"
           /\ rd_file[n] \in {"empty", "corrupt"})
          => \/ rd_file'[n] = "absent" /\ rd_pc'[n] = "request"
             \/ rd_ret'[n] = "raised"]_vars

\* C13 (amended): a local round_{n}.json that is not valid JSON is deleted and
\* the round is requested again in the same run, unless the deletion itself
\* fails, which makes the task raise with the file left in place; a local
\* file that holds an empty round is kept, no request is made and the round
\* yields None.
C13_CorruptRefetchedEmptySkipped ==
    [][\A n \in Rounds :
          (rd_pc[n] = "created" /\ rd_pc'[n] # "created") =>
             /\ rd_file[n] = "corrupt" =>
                   \/ rd_file'[n] = "absent" /\ rd_pc'[n] = "request"
                   \/ /\ rd_file'[n] = "corrupt"
                      /\ rd_pc'[n] = "done"
                      /\ rd_ret'[n] = "raised"
             /\ rd_file[n] = "empty" =>
                   /\ rd_file'[n] = "empty"
                   /\ rd_pc'[n] = "done"
                   /\ rd_ret'[n] = "None"
                   /\ rd_status'[n] = 0]_vars

\* every round had a local file when the batch began: one round was skipped
\* for its empty file, which is still there, while the request of another
\* round, whose corrupt file is gone, is open
C13_Witness ==
    \E n, m \in Rounds :
        /\ rd_branch[n] = "disk_empty"
        /\ rd_file[n] = "empty"
        /\ rd_ret[n] = "None"
        /\ rd_file[m] = "absent"
        /\ rd_pc[m] = "request"

\* C14 (as claimed): fetch_all_rounds_for_season(league, season, max_round=R)
\* attempts exactly the rounds 1..R.
C14_RoundsUpToMaxRound ==
    rd_batch = "returned" => AttemptedRounds = 1..rd_max_round

\* C6 (as claimed): a 404 answer to a round request reaches the round fetcher
\* as ResourceNotFoundError and is handled by its ResourceNotFound branch, not
\* by its generic error branch.
C6_NotFoundIsDistinct ==
    \A n \in Rounds :
        (rd_pc[n] = "done" /\ rd_status[n] = 404) => rd_branch[n] = "not_found"

\* C9: in a round batch and in a match-detail batch an error in one round or
\* match never prevents the other rounds or matches from being attempted, and
\* the call returns normally with the results of the units that succeeded.
C9_ErrorsContained ==
    /\ rd_batch # "crashed"
    /\ rd_batch = "running" =>
          \A n \in Rounds : rd_pc[n] = "created" => ENABLED RoundTaskStart(n, "ok")
    /\ rd_batch = "returned" =>
          /\ \A n \in Rounds : rd_pc[n] = "done"
          /\ \A n \in Rounds :
                (\E p \in 1..Len(rd_results) : rd_results[p] = n) <=> rd_ret[n] = "data"
    /\ (md_phase = "running" /\ Cardinality(SemHolders) < md_max_concurrent) =>
          \A i \in Tasks : md_pc[i] = "acquire" => ENABLED MatchAcquire(i)
    /\ (md_phase = "returned" /\ md_call >= 1) =>
          /\ \A i \in 1..Len(md_match_ids) : md_pc[i] \in {"done", "skipped"}
          /\ \A i \in 1..Len(md_match_ids) :
                md_pc[i] = "done" => md_result[i] \in {"data", "None"}
          /\ md_results = { md_match_ids[i] : i \in { j \in 1..Len(md_match_ids) :
                                                      md_result[j] = "data" } }

\* a round batch that returned although one task raised and another one ended
\* in the generic error branch
C9_Witness ==
    /\ rd_batch = "returned"
    /\ rd_branch[1] = "task_error"
    /\ rd_branch[2] = "generic"


ReqInit == RqInit /\ FIdle /\ RdIdle /\ MdIdle /\ SfIdle /\ CsIdle /\ YvIdle /\ FsIdle /\ GsIdle /\ CwIdle /\ AdIdle /\ SpIdle /\ SoIdle /\ CdIdle /\ SvIdle /\ IrIdle /\ EqIdle /\ CmIdle
ReqNext == RqNext /\ UNCHANGED <<f_vars, rd_vars, md_vars, sf_vars, cs_vars, yv_vars, fs_vars, gs_vars, cw_vars, ad_vars, sp_vars, so_vars, cd_vars, sv_vars, ir_vars, eq_vars, cm_vars>>
SpecReq == ReqInit /\ [][ReqNext]_vars

FilterInit == FInit /\ RqIdle /\ RdIdle /\ MdIdle /\ SfIdle /\ CsIdle /\ YvIdle /\ FsIdle /\ GsIdle /\ CwIdle /\ AdIdle /\ SpIdle /\ SoIdle /\ CdIdle /\ SvIdle /\ IrIdle /\ EqIdle /\ CmIdle
FilterNext == FNext /\ UNCHANGED <<rq_vars, rd_vars, md_vars, sf_vars, cs_vars, yv_vars, fs_vars, gs_vars, cw_vars, ad_vars, sp_vars, so_vars, cd_vars, sv_vars, ir_vars, eq_vars, cm_vars>>
SpecFilter == FilterInit /\ [][FilterNext]_vars

RoundsInit == RdInit /\ RqIdle /\ FIdle /\ MdIdle /\ SfIdle /\ CsIdle /\ YvIdle /\ FsIdle /\ GsIdle /\ CwIdle /\ AdIdle /\ SpIdle /\ SoIdle /\ CdIdle /\ SvIdle /\ IrIdle /\ EqIdle /\ CmIdle
RoundsNext == RdNext /\ UNCHANGED <<rq_vars, f_vars, md_vars, sf_vars, cs_vars, yv_vars, fs_vars, gs_vars, cw_vars, ad_vars, sp_vars, so_vars, cd_vars, sv_vars, ir_vars, eq_vars, cm_vars>>
SpecRounds == RoundsInit /\ [][RoundsNext]_vars

MatchInit == MdInit /\ RqIdle /\ FIdle /\ RdIdle /\ SfIdle /\ CsIdle /\ YvIdle /\ FsIdle /\ GsIdle /\ CwIdle /\ AdIdle /\ SpIdle /\ SoIdle /\ CdIdle /\ SvIdle /\ IrIdle /\ EqIdle /\ CmIdle
MatchNext == MdNext /\ UNCHANGED <<rq_vars, f_vars, rd_vars, sf_vars, cs_vars, yv_vars, fs_vars, gs_vars, cw_vars, ad_vars, sp_vars, so_vars, cd_vars, sv_vars, ir_vars, eq_vars, cm_vars>>
SpecMatch == MatchInit /\ [][MatchNext]_vars

\* every request is answered or times out, and the event loop runs a task
\* that is ready: a call that can take a step takes one
MatchFairInit == MdInitSerial /\ RqIdle /\ FIdle /\ RdIdle /\ SfIdle /\ CsIdle /\ YvIdle /\ FsIdle /\ GsIdle /\ CwIdle /\ AdIdle /\ SpIdle /\ SoIdle /\ CdIdle /\ SvIdle /\ IrIdle /\ EqIdle /\ CmIdle
SpecMatchFair == MatchFairInit /\ [][MatchNext]_vars /\ WF_vars(MatchNext)

MatchTwiceInit == MdInitTwice /\ RqIdle /\ FIdle /\ RdIdle /\ SfIdle /\ CsIdle /\ YvIdle /\ FsIdle /\ GsIdle /\ CwIdle /\ AdIdle /\ SpIdle /\ SoIdle /\ CdIdle /\ SvIdle /\ IrIdle /\ EqIdle /\ CmIdle
SpecMatchTwice == MatchTwiceInit /\ [][MatchNext]_vars

MatchBatchesInit == MdInitBatches /\ RqIdle /\ FIdle /\ RdIdle /\ SfIdle /\ CsIdle /\ YvIdle /\ FsIdle /\ GsIdle /\ CwIdle /\ AdIdle /\ SpIdle /\ SoIdle /\ CdIdle /\ SvIdle /\ IrIdle /\ EqIdle /\ CmIdle
SpecMatchBatches == MatchBatchesInit /\ [][MatchNext]_vars

MatchListsInit == MdInitLists /\ RqIdle /\ FIdle /\ RdIdle /\ SfIdle /\ CsIdle /\ YvIdle /\ FsIdle /\ GsIdle /\ CwIdle /\ AdIdle /\ SpIdle /\ SoIdle /\ CdIdle /\ SvIdle /\ IrIdle /\ EqIdle /\ CmIdle
SpecMatchLists == MatchListsInit /\ [][MatchNext]_vars

CachedInit == RqIdle /\ FIdle /\ RdInitCached /\ MdIdle /\ SfIdle /\ CsIdle /\ YvIdle /\ FsIdle /\ GsIdle /\ CwIdle /\ AdIdle /\ SpIdle /\ SoIdle /\ CdIdle /\ SvIdle /\ IrIdle /\ EqIdle /\ CmIdle
SpecCached == CachedInit /\ [][RoundsNext]_vars

SeasonInit == RqIdle /\ FIdle /\ RdInitSeason /\ MdIdle /\ SfIdle /\ CsIdle /\ YvIdle /\ FsIdle /\ GsIdle /\ CwIdle /\ AdIdle /\ SpIdle /\ SoIdle /\ CdIdle /\ SvIdle /\ IrIdle /\ EqIdle /\ CmIdle
SeasonNext == RdSeasonNext /\ UNCHANGED <<rq_vars, f_vars, md_vars, sf_vars, cs_vars, yv_vars, fs_vars, gs_vars, cw_vars, ad_vars, sp_vars, so_vars, cd_vars, sv_vars, ir_vars, eq_vars, cm_vars>>
SpecSeason == SeasonInit /\ [][SeasonNext]_vars

LeaguesInit == SfInit /\ RqIdle /\ FIdle /\ RdIdle /\ MdIdle /\ CsIdle /\ YvIdle /\ FsIdle /\ GsIdle /\ CwIdle /\ AdIdle /\ SpIdle /\ SoIdle /\ CdIdle /\ SvIdle /\ IrIdle /\ EqIdle /\ CmIdle
LeaguesNext == SfNext /\ UNCHANGED <<rq_vars, f_vars, rd_vars, md_vars, cs_vars, yv_vars, fs_vars, gs_vars, cw_vars, ad_vars, sp_vars, so_vars, cd_vars, sv_vars, ir_vars, eq_vars, cm_vars>>
SpecLeagues == LeaguesInit /\ [][LeaguesNext]_vars

ChoiceInit == CsInit /\ RqIdle /\ FIdle /\ RdIdle /\ MdIdle /\ SfIdle /\ YvIdle /\ FsIdle /\ GsIdle /\ CwIdle /\ AdIdle /\ SpIdle /\ SoIdle /\ CdIdle /\ SvIdle /\ IrIdle /\ EqIdle /\ CmIdle
ChoiceNext == CsNext /\ UNCHANGED <<rq_vars, f_vars, rd_vars, md_vars, sf_vars, yv_vars, fs_vars, gs_vars, cw_vars, ad_vars, sp_vars, so_vars, cd_vars, sv_vars, ir_vars, eq_vars, cm_vars>>
SpecChoice == ChoiceInit /\ [][ChoiceNext]_vars

SortKeyInit == YvInit /\ RqIdle /\ FIdle /\ RdIdle /\ MdIdle /\ SfIdle /\ CsIdle /\ FsIdle /\ GsIdle /\ CwIdle /\ AdIdle /\ SpIdle /\ SoIdle /\ CdIdle /\ SvIdle /\ IrIdle /\ EqIdle /\ CmIdle
SortKeyNext == YvNext /\ UNCHANGED <<rq_vars, f_vars, rd_vars, md_vars, sf_vars, cs_vars, fs_vars, gs_vars, cw_vars, ad_vars, sp_vars, so_vars, cd_vars, sv_vars, ir_vars, eq_vars, cm_vars>>
SpecSortKey == SortKeyInit /\ [][SortKeyNext]_vars

\* a call that can take its next step takes it: nothing but the call itself
\* holds it up
FallbackInit == FsInit /\ RqIdle /\ FIdle /\ RdIdle /\ MdIdle /\ SfIdle /\ CsIdle /\ YvIdle /\ GsIdle /\ CwIdle /\ AdIdle /\ SpIdle /\ SoIdle /\ CdIdle /\ SvIdle /\ IrIdle /\ EqIdle /\ CmIdle
FallbackNext == FsNext /\ UNCHANGED <<rq_vars, f_vars, rd_vars, md_vars, sf_vars, cs_vars, yv_vars, gs_vars, cw_vars, ad_vars, sp_vars, so_vars, cd_vars, sv_vars, ir_vars, eq_vars, cm_vars>>
SpecFallback == FallbackInit /\ [][FallbackNext]_vars /\ WF_vars(FallbackNext)

SummaryInit == GsInit /\ RqIdle /\ FIdle /\ RdIdle /\ MdIdle /\ SfIdle /\ CsIdle /\ YvIdle /\ FsIdle /\ CwIdle /\ AdIdle /\ SpIdle /\ SoIdle /\ CdIdle /\ SvIdle /\ IrIdle /\ EqIdle /\ CmIdle
SummaryNext == GsNext /\ UNCHANGED <<rq_vars, f_vars, rd_vars, md_vars, sf_vars, cs_vars, yv_vars, fs_vars, cw_vars, ad_vars, sp_vars, so_vars, cd_vars, sv_vars, ir_vars, eq_vars, cm_vars>>
SpecSummary == SummaryInit /\ [][SummaryNext]_vars

CsvInit == CwInit /\ RqIdle /\ FIdle /\ RdIdle /\ MdIdle /\ SfIdle /\ CsIdle /\ YvIdle /\ FsIdle /\ GsIdle /\ AdIdle /\ SpIdle /\ SoIdle /\ CdIdle /\ SvIdle /\ IrIdle /\ EqIdle /\ CmIdle
CsvNext == CwNext /\ UNCHANGED <<rq_vars, f_vars, rd_vars, md_vars, sf_vars, cs_vars, yv_vars, fs_vars, gs_vars, ad_vars, sp_vars, so_vars, cd_vars, sv_vars, ir_vars, eq_vars, cm_vars>>
SpecCsv == CsvInit /\ [][CsvNext]_vars

DetailsInit == AdInit /\ RqIdle /\ FIdle /\ RdIdle /\ MdIdle /\ SfIdle /\ CsIdle /\ YvIdle /\ FsIdle /\ GsIdle /\ CwIdle /\ SpIdle /\ SoIdle /\ CdIdle /\ SvIdle /\ IrIdle /\ EqIdle /\ CmIdle
DetailsNext == AdNext /\ UNCHANGED <<rq_vars, f_vars, rd_vars, md_vars, sf_vars, cs_vars, yv_vars, fs_vars, gs_vars, cw_vars, sp_vars, so_vars, cd_vars, sv_vars, ir_vars, eq_vars, cm_vars>>
SpecDetails == DetailsInit /\ [][DetailsNext]_vars

ResumeInit == SpInit /\ RqIdle /\ FIdle /\ RdIdle /\ MdIdle /\ SfIdle /\ CsIdle /\ YvIdle /\ FsIdle /\ GsIdle /\ CwIdle /\ AdIdle /\ SoIdle /\ CdIdle /\ SvIdle /\ IrIdle /\ EqIdle /\ CmIdle
ResumeNext == SpNext /\ UNCHANGED <<rq_vars, f_vars, rd_vars, md_vars, sf_vars, cs_vars, yv_vars, fs_vars, gs_vars, cw_vars, ad_vars, so_vars, cd_vars, sv_vars, ir_vars, eq_vars, cm_vars>>
SpecResume == ResumeInit /\ [][ResumeNext]_vars

OrderInit == SoInit /\ RqIdle /\ FIdle /\ RdIdle /\ MdIdle /\ SfIdle /\ CsIdle /\ YvIdle /\ FsIdle /\ GsIdle /\ CwIdle /\ AdIdle /\ SpIdle /\ CdIdle /\ SvIdle /\ IrIdle /\ EqIdle /\ CmIdle
OrderNext == SoNext /\ UNCHANGED <<rq_vars, f_vars, rd_vars, md_vars, sf_vars, cs_vars, yv_vars, fs_vars, gs_vars, cw_vars, ad_vars, sp_vars, cd_vars, sv_vars, ir_vars, eq_vars, cm_vars>>
SpecOrder == OrderInit /\ [][OrderNext]_vars

DatasetInit == CdInit /\ RqIdle /\ FIdle /\ RdIdle /\ MdIdle /\ SfIdle /\ CsIdle /\ YvIdle /\ FsIdle /\ GsIdle /\ CwIdle /\ AdIdle /\ SpIdle /\ SoIdle /\ SvIdle /\ IrIdle /\ EqIdle /\ CmIdle
DatasetNext == CdNext /\ UNCHANGED <<rq_vars, f_vars, rd_vars, md_vars, sf_vars, cs_vars, yv_vars, fs_vars, gs_vars, cw_vars, ad_vars, sp_vars, so_vars, sv_vars, ir_vars, eq_vars, cm_vars>>
SpecDataset == DatasetInit /\ [][DatasetNext]_vars

SaveInit == SvInit /\ RqIdle /\ FIdle /\ RdIdle /\ MdIdle /\ SfIdle /\ CsIdle /\ YvIdle /\ FsIdle /\ GsIdle /\ CwIdle /\ AdIdle /\ SpIdle /\ SoIdle /\ CdIdle /\ IrIdle /\ EqIdle /\ CmIdle
SaveNext == SvNext /\ UNCHANGED <<rq_vars, f_vars, rd_vars, md_vars, sf_vars, cs_vars, yv_vars, fs_vars, gs_vars, cw_vars, ad_vars, sp_vars, so_vars, cd_vars, ir_vars, eq_vars, cm_vars>>
SpecSave == SaveInit /\ [][SaveNext]_vars

InferInit == IrInit /\ RqIdle /\ FIdle /\ RdIdle /\ MdIdle /\ SfIdle /\ CsIdle /\ YvIdle /\ FsIdle /\ GsIdle /\ CwIdle /\ AdIdle /\ SpIdle /\ SoIdle /\ CdIdle /\ SvIdle /\ EqIdle /\ CmIdle
InferNext == IrNext /\ UNCHANGED <<rq_vars, f_vars, rd_vars, md_vars, sf_vars, cs_vars, yv_vars, fs_vars, gs_vars, cw_vars, ad_vars, sp_vars, so_vars, cd_vars, sv_vars, eq_vars, cm_vars>>
SpecInfer == InferInit /\ [][InferNext]_vars

PathsInit == EqInit /\ RqIdle /\ FIdle /\ RdIdle /\ MdIdle /\ SfIdle /\ CsIdle /\ YvIdle /\ FsIdle /\ GsIdle /\ CwIdle /\ AdIdle /\ SpIdle /\ SoIdle /\ CdIdle /\ SvIdle /\ IrIdle /\ CmIdle
PathsNext == EqNext /\ UNCHANGED <<rq_vars, f_vars, rd_vars, md_vars, sf_vars, cs_vars, yv_vars, fs_vars, gs_vars, cw_vars, ad_vars, sp_vars, so_vars, cd_vars, sv_vars, ir_vars, cm_vars>>
SpecPaths == PathsInit /\ [][PathsNext]_vars

LeagueMapInit == CmInit /\ RqIdle /\ FIdle /\ RdIdle /\ MdIdle /\ SfIdle /\ CsIdle /\ YvIdle /\ FsIdle /\ GsIdle /\ CwIdle /\ AdIdle /\ SpIdle /\ SoIdle /\ CdIdle /\ SvIdle /\ IrIdle /\ EqIdle
LeagueMapNext == CmNext /\ UNCHANGED <<rq_vars, f_vars, rd_vars, md_vars, sf_vars, cs_vars, yv_vars, fs_vars, gs_vars, cw_vars, ad_vars, sp_vars, so_vars, cd_vars, sv_vars, ir_vars, eq_vars>>
SpecLeagueMaps == LeagueMapInit /\ [][LeagueMapNext]_vars

\* one batch call of either kind
BatchInit ==
    /\ RqIdle
    /\ FIdle
    /\ SfIdle
    /\ CsIdle
    /\ YvIdle
    /\ FsIdle
    /\ GsIdle
    /\ CwIdle
    /\ AdIdle
    /\ SpIdle
    /\ SoIdle
    /\ CdIdle
    /\ SvIdle
    /\ IrIdle
    /\ EqIdle
    /\ CmIdle
    /\ \/ RdInit /\ MdIdle
       \/ RdIdle /\ (MdInit \/ MdInitBatches)

BatchNext ==
    \/ RdNext /\ UNCHANGED <<rq_vars, f_vars, md_vars, sf_vars, cs_vars, yv_vars, fs_vars, gs_vars, cw_vars, ad_vars, sp_vars, so_vars, cd_vars, sv_vars, ir_vars, eq_vars, cm_vars>>
    \/ MdNext /\ UNCHANGED <<rq_vars, f_vars, rd_vars, sf_vars, cs_vars, yv_vars, fs_vars, gs_vars, cw_vars, ad_vars, sp_vars, so_vars, cd_vars, sv_vars, ir_vars, eq_vars, cm_vars>>

SpecBatch == BatchInit /\ [][BatchNext]_vars
====
